---- MODULE Spec2Model ----
(***************************************************************************)
(* Model of the platypus cold-tier server: the per-key refresh engine      *)
(* (monitor.rs), the server's accept/tick loop and connection tasks        *)
(* (server.rs) and the write-back thread (writer.rs).                      *)
(***************************************************************************)
EXTENDS Integers, Sequences, FiniteSets, TLC

\* ---------------------------------------------------------------- bounds
MaxTime == 14
MaxCmds == 3
MaxPendingTicks == 2
MaxSends == 3
\* the frames a client writes, the writes of a connection task
MaxFrames == 2
MaxWire == 3
\* the rules of a Router, the rules of a Merge
MaxRules == 2
MaxMergeRules == 2

\* ------------------------------------------------------ program constants
\* MonitorTask::new: ttl: Duration::from_secs(12)
TTL == 12
\* get_or_create_monitor_task: .interval(Duration::from_secs(5))
Interval == 5
\* Server::run: tokio::time::interval(Duration::from_secs(1))
TickPeriod == 1

Keys == {"k1", "k2"}
Conns == {"c1", "c2"}
Values == {"a", "b"}
\* Option::None of a getter result / of last_result
None == "none"
Outcomes == Values \cup {None}
Signals == {"SIGINT", "SIGTERM"}

VARIABLES
    now,          \* Instant::now(), in seconds
    tickDue,      \* ticks of monitor_interval that fired and were not taken yet
    lock,         \* holder of the monitor_tasks Mutex: "free", "main" or a connection
    tasks,        \* monitor_tasks: key -> MonitorTask
    conn,         \* per-connection task: its position and locals
    mainPc,       \* position of Server::run
    tickTodo,     \* keys that tasks.values_mut() has still to visit
    tickKey,      \* key of the task whose getter the tick awaits
    tickSkipped,  \* keys this pass of the tick found expired and passed over
    sigs,         \* signals delivered so far
    mainNotified, \* the run loop's notified() future was woken
    nCmds,        \* commands received so far
    jobs,         \* the WriteJob channel (tx -> rx)
    nSent,        \* jobs accepted by the channel so far
    shutdownTok,  \* tokens in the shutdown channel
    wpc,          \* position of the writer thread
    wOwner,       \* what became of the Writer value
    client,       \* the thread's Result<memcache::Client, _>
    warm,         \* the warm tier: key -> value
    tierUp,       \* the warm tier accepts connections
    writers,      \* Writer threads spawned for the warm-tier target so far
    lastSend,     \* result of the latest send on the job channel
    lastSeq,      \* sequence number of the job last handed to Writer::process
    lastAttempt,  \* sequence number of the job last tried against the warm tier
    sentAtShutdown, \* nSent when Writer::shutdown was called
    getter,       \* Server::getter: "some" or "none"
    overflow_checks, \* the build checks integer overflow (debug) or wraps (release)
    sent,         \* the request frames the client of connection p wrote, in order
    consumed,     \* how many of them the connection's BufReader has consumed
    ppc,          \* position of connection p's task
    ctx,          \* the CommandContext recv_command returned
    items,        \* handle_command's `items` and the keys it has still to get
    wire,         \* what the connection task wrote to the socket, in order
    router,       \* Router::rules, in insertion order
    routed,       \* what the latest Router::rule returned, and for which key
    request,      \* the Request under construction or handed to a source
    source,       \* the source under construction: an Echo or a Merge
    response      \* what the latest Source::call returned

vars == <<now, tickDue, lock, tasks, conn, mainPc, tickTodo, tickKey, tickSkipped, sigs,
          mainNotified, nCmds, jobs, nSent, shutdownTok, wpc, wOwner,
          client, warm, tierUp, writers, lastSend, lastSeq, lastAttempt,
          sentAtShutdown, getter, overflow_checks, sent, consumed, ppc, ctx, items, wire,
          router, routed, request, source, response>>

clockVars == <<now, tickDue>>
engineVars == <<lock, tasks, tickTodo, tickKey, tickSkipped>>
serverVars == <<conn, mainPc, sigs, mainNotified, nCmds>>
chanVars == <<jobs, nSent, shutdownTok, wOwner, sentAtShutdown>>
threadVars == <<wpc, client, warm, lastSeq, lastAttempt>>
protoVars == <<getter, overflow_checks, sent, consumed, ppc, ctx, items, wire>>
sourceVars == <<router, routed, request, source, response>>

\* ------------------------------------------------------------ MonitorTask
NoTask == [present |-> FALSE, until |-> 0, updated_at |-> 0,
           last_result |-> None, target |-> FALSE, refreshed |-> FALSE]

\* fault variant of NewTask: the task carries the stamp of the process start
NewTask_at_epoch(t, target) ==
    [present |-> TRUE, until |-> 0, updated_at |-> 0,
     last_result |-> None, target |-> target, refreshed |-> FALSE]

\* MonitorTask::new(..).interval(5s).key(key).target(writer) at instant t
NewTask(t, target) ==
    [present |-> TRUE, until |-> t, updated_at |-> t,
     last_result |-> None, target |-> target, refreshed |-> FALSE]

\* fault variant of has_expired: a window that never lapses
never_expired(task, t) == FALSE

\* MonitorTask::has_expired
has_expired(task, t) == t > task.until

\* fault variant of touch: the liveness window is left where it was
touch_keeps_window(task, t) == task

\* fault variant of touch: a task whose window has elapsed is not revived
touch_if_live(task, t) ==
    IF t > task.until THEN task ELSE [task EXCEPT !.until = t + TTL]

\* MonitorTask::touch
touch(task, t) == [task EXCEPT !.until = t + TTL]

\* the guard of MonitorTask::tick that decides a refresh
refresh_due(task, t) == t > task.updated_at + Interval

\* Writer::send: ttl.as_secs() as u32 (whole seconds; the cast keeps every
\* value below 2^32, and every ttl of the model is)
ttl_secs(ttl) == ttl

\* the WriteJob built by Writer::send (seq: its position among all jobs sent)
WriteJob(key, value, ttl, seq) ==
    [key |-> key, value |-> value, ttl_secs |-> ttl_secs(ttl), seq |-> seq]

\* fault variant of send_ok: the channel takes a job whatever the receiver
send_always_ok == TRUE

\* self.sender.send(job) succeeds while the receiver lives
send_ok == wpc /= "exited"

\* Writer::send / Sender::send: the job is queued, or the send returns Err
\* and the job is dropped
send(key, value, ttl) ==
    IF send_ok
    THEN /\ jobs' = Append(jobs, WriteJob(key, value, ttl, nSent + 1))
         /\ nSent' = nSent + 1
         /\ lastSend' = "ok"
    ELSE /\ lastSend' = "err"
         /\ UNCHANGED <<sourceVars, jobs, nSent>>

\* fault variant of get_task: a call without a value wipes the stored one and
\* stamps the task
get_task_none_clears(task, outcome, t, byTick) ==
    [task EXCEPT !.updated_at = t, !.last_result = outcome,
                 !.refreshed = (task.refreshed \/ byTick)]

\* MonitorTask::get after the getter returned `outcome` at instant t: the task
get_task(task, outcome, t, byTick) ==
    IF outcome /= None
    THEN [task EXCEPT !.updated_at = t, !.last_result = outcome,
                      !.refreshed = (task.refreshed \/ byTick)]
    ELSE task

\* fault variant of get_sends: a job is sent whatever the getter returned
get_sends_always(task, outcome) == task.target

\* MonitorTask::get: whether it calls target.send
get_sends(task, outcome) == outcome /= None /\ task.target

\* MonitorTask::get: the job channel and the count of jobs afterwards
get_chan(task, key, outcome) ==
    IF get_sends(task, outcome)
    THEN send(key, outcome, TTL)
    ELSE UNCHANGED <<sourceVars, jobs, nSent, lastSend>>

\* ---------------------------------------------------------------- protocol
\* protocol/binary.rs: magic bytes, the opcodes and the status codes used
MAGIC_REQUEST == 128
MAGIC_RESPONSE == 129
OPCODE_GET == 0
OPCODE_SET == 1
OPCODE_DELETE == 4
OPCODE_QUIT == 7
OPCODE_NOOP == 10
OPCODE_VERSION == 11
OPCODE_GETK == 12
OPCODE_STAT == 16
STATUS_SUCCESS == 0
STATUS_UNKNOWN_COMMAND == 129
\* the length of a binary header
HeaderLen == 24

\* a request frame as the BufReader holds it: a text line (its words), or a
\* binary packet (its header fields, its key, and `len`, the number of its
\* bytes that are in the buffer)
Line(toks) ==
    [d |-> "line", toks |-> toks, magic |-> 0, opcode |-> 0, key_length |-> 0,
     extras_length |-> 0, total_body_length |-> 0, opaque |-> 0, key |-> "-", len |-> 0]

Packet(magic, opcode, key, key_length, extras_length, total_body_length, opaque, len) ==
    [d |-> "bin", toks |-> <<>>, magic |-> magic, opcode |-> opcode,
     key_length |-> key_length, extras_length |-> extras_length,
     total_body_length |-> total_body_length, opaque |-> opaque, key |-> key, len |-> len]

\* the end of the client's stream: fill_buf returns an empty buffer, now and on
\* every later read
Eof ==
    [d |-> "eof", toks |-> <<>>, magic |-> 0, opcode |-> 0, key_length |-> 0,
     extras_length |-> 0, total_body_length |-> 0, opaque |-> 0, key |-> "-", len |-> 0]

\* the number of bytes of a key or a value of the model ("k1", "a", ..)
KeyLen == 2
ValueLen == 1
\* the opaque the binary requests of the model carry
Opaque == 7

\* a well-formed binary request: the whole packet is in the buffer
Request(opcode, key, opaque) ==
    LET kl == IF key = "-" THEN 0 ELSE KeyLen
    IN  Packet(MAGIC_REQUEST, opcode, key, kl, 0, kl, opaque, HeaderLen + kl)

TextFrames ==
    {Line(<<"get", "k1">>), Line(<<"get", "k2", "k1">>), Line(<<"version">>),
     Line(<<"mg", "k1">>), Line(<<"mn">>), Line(<<"quit">>),
     Line(<<"gat", "0", "k1">>), Line(<<"touch", "k1", "0">>),
     Line(<<"bogus">>), Line(<<"get">>), Line(<<>>)}

BinaryFrames ==
    {Request(OPCODE_GET, "k1", Opaque), Request(OPCODE_GETK, "k2", 0),
     Request(OPCODE_VERSION, "-", Opaque), Request(OPCODE_STAT, "-", Opaque),
     Request(OPCODE_DELETE, "k1", Opaque), Request(OPCODE_QUIT, "-", Opaque),
     \* an opcode parse_binary does not know
     Request(OPCODE_SET, "k1", Opaque),
     \* a response magic where a request is expected
     Packet(MAGIC_RESPONSE, OPCODE_GET, "k1", KeyLen, 0, KeyLen, Opaque, HeaderLen + KeyLen),
     \* extras on a GET
     Packet(MAGIC_REQUEST, OPCODE_GET, "k1", KeyLen, 4, KeyLen + 4, Opaque, HeaderLen + KeyLen + 4),
     \* total_body_length smaller than extras_length + key_length
     Packet(MAGIC_REQUEST, OPCODE_GET, "k1", KeyLen, 0, 0, Opaque, HeaderLen + KeyLen),
     \* a header cut short, and a body cut short
     Packet(MAGIC_REQUEST, OPCODE_GET, "k1", KeyLen, 0, KeyLen, Opaque, 10),
     Packet(MAGIC_REQUEST, OPCODE_GET, "k1", KeyLen, 0, KeyLen, Opaque, HeaderLen)}

Frames == TextFrames \cup BinaryFrames

\* Command and ProtocolType values
Cmd(op, keys) == [op |-> op, keys |-> keys]
NoCmd == Cmd("-", <<>>)
Text == [type |-> "Text", opaque |-> 0]
Meta == [type |-> "Meta", opaque |-> 0]
Binary(opaque) == [type |-> "Binary", opaque |-> opaque]

\* the outcome of recv_command: Ok(CommandContext), Err(NoCommand), Err(other)
\* or a panic, and whether the frame was consumed from the BufReader
Parsed(res, command, protocol, eaten) ==
    [res |-> res, command |-> command, protocol |-> protocol, eaten |-> eaten]

\* text::parse on the words of a trimmed line (every exptime of the model is a
\* number; the Command of the model does not keep it)
text_parse(toks) ==
    CASE toks[1] = "get" /\ Len(toks) >= 2 -> Parsed("Ok", Cmd("Get", Tail(toks)), Text, TRUE)
      [] toks[1] = "gets" /\ Len(toks) >= 2 -> Parsed("Ok", Cmd("Gets", Tail(toks)), Text, TRUE)
      [] toks[1] = "gat" /\ Len(toks) >= 3 ->
            Parsed("Ok", Cmd("Gat", SubSeq(toks, 3, Len(toks))), Text, TRUE)
      [] toks[1] = "gats" /\ Len(toks) >= 3 ->
            Parsed("Ok", Cmd("Gats", SubSeq(toks, 3, Len(toks))), Text, TRUE)
      [] toks[1] = "version" -> Parsed("Ok", Cmd("Version", <<>>), Text, TRUE)
      [] toks[1] = "stats" -> Parsed("Ok", Cmd("Stats", <<>>), Text, TRUE)
      [] toks[1] = "touch" /\ Len(toks) = 3 ->
            Parsed("Ok", Cmd("Touch", <<toks[2]>>), Text, TRUE)
      [] toks[1] = "quit" -> Parsed("Ok", Cmd("Quit", <<>>), Text, TRUE)
      [] OTHER -> Parsed("Err", NoCmd, Text, TRUE)

\* meta::parse on the words of a trimmed line
meta_parse(toks) ==
    CASE toks[1] = "mg" /\ Len(toks) >= 2 -> Parsed("Ok", Cmd("MetaGet", <<toks[2]>>), Meta, TRUE)
      [] toks[1] = "mn" /\ Len(toks) = 1 -> Parsed("Ok", Cmd("MetaNoOp", <<>>), Meta, TRUE)
      [] OTHER -> Parsed("Err", NoCmd, Meta, TRUE)

\* fault variant of parse_text: an empty line is a parse error like any other
parse_text_empty_is_error(toks) ==
    IF toks = <<>> THEN Parsed("Err", NoCmd, Text, TRUE)
    ELSE IF (toks[1] = "mg" /\ Len(toks) >= 2) \/ toks = <<"mn">>
         THEN meta_parse(toks)
         ELSE text_parse(toks)

\* parse_text: read_line has taken the line from the buffer
parse_text(toks) ==
    IF toks = <<>> THEN Parsed("NoCommand", NoCmd, Text, TRUE)
    ELSE IF (toks[1] = "mg" /\ Len(toks) >= 2) \/ toks = <<"mn">>
         THEN meta_parse(toks)
         ELSE text_parse(toks)

\* parse_binary: `total_body_length as usize - extras_length as usize -
\* key_length as usize` underflows when the header declares a body shorter
\* than its extras and key. With overflow checks the subtraction panics;
\* without them it wraps to a length above isize::MAX and `vec![0u8; n]`
\* panics with a capacity overflow.
value_length(f) ==
    IF f.total_body_length >= f.extras_length + f.key_length
    THEN [panics |-> FALSE, why |-> "-",
          n |-> f.total_body_length - f.extras_length - f.key_length]
    ELSE IF overflow_checks
         THEN [panics |-> TRUE, why |-> "attempt to subtract with overflow", n |-> 0]
         ELSE [panics |-> TRUE, why |-> "capacity overflow", n |-> 0]

\* parse_binary on the bytes in the buffer; nothing is consumed on Err
parse_binary(f) ==
    LET vl == value_length(f)
        bad == Parsed("Err", NoCmd, Text, FALSE)
        ok(command) == Parsed("Ok", command, Binary(f.opaque), TRUE)
    IN  IF f.len < HeaderLen THEN bad                      \* packet too small
        ELSE IF f.magic /= MAGIC_REQUEST THEN bad          \* invalid magic
        ELSE IF vl.panics THEN Parsed("Panic", NoCmd, Text, FALSE)
        ELSE IF f.len < HeaderLen + f.total_body_length THEN bad   \* read_exact
        ELSE CASE f.opcode \in {OPCODE_GET, OPCODE_GETK} ->
                    IF f.extras_length /= 0 \/ f.key_length = 0 \/ vl.n /= 0
                    THEN bad ELSE ok(Cmd("Get", <<f.key>>))
               [] f.opcode = OPCODE_VERSION ->
                    IF f.extras_length /= 0 \/ f.key_length /= 0 \/ vl.n /= 0
                    THEN bad ELSE ok(Cmd("Version", <<>>))
               [] f.opcode = OPCODE_QUIT ->
                    IF f.extras_length /= 0 \/ f.key_length /= 0 \/ vl.n /= 0
                    THEN bad ELSE ok(Cmd("Quit", <<>>))
               [] f.opcode = OPCODE_STAT ->
                    IF f.extras_length /= 0 \/ vl.n /= 0
                    THEN bad ELSE ok(Cmd("Stats", <<>>))
               [] f.opcode = OPCODE_DELETE ->
                    IF f.extras_length /= 0 \/ f.key_length = 0 \/ vl.n /= 0
                    THEN bad ELSE ok(Cmd("Touch", <<f.key>>))
               [] OTHER -> bad                             \* unsupported opcode

\* recv_command on the first frame of the buffer
recv_command(f) ==
    IF f.d = "eof" THEN Parsed("NoCommand", NoCmd, Text, FALSE)   \* data.len() < 1
    ELSE IF f.d = "bin" THEN parse_binary(f) ELSE parse_text(f.toks)

\* Response values
Resp(kind, its) == [kind |-> kind, items |-> its]
Item(key, data) == [key |-> key, data |-> data]

\* what is written: lines of text, or binary packets (header and body)
TextLine(toks) ==
    [t |-> "line", text |-> toks, magic |-> 0, opcode |-> 0, key_length |-> 0,
     extras_length |-> 0, status |-> 0, total_body_length |-> 0, opaque |-> 0]

BinaryHeader(opcode, key_length, extras_length, status, total_body_length, opaque, body) ==
    [t |-> "pkt", text |-> body, magic |-> MAGIC_RESPONSE, opcode |-> opcode,
     key_length |-> key_length, extras_length |-> extras_length, status |-> status,
     total_body_length |-> total_body_length, opaque |-> opaque]

\* BinaryHeader::new_response: `opaque: 0`
new_response(opcode, key_length, extras_length, status, total_body_length, body) ==
    BinaryHeader(opcode, key_length, extras_length, status, total_body_length, 0, body)

\* handle_command(Stats): the fixed list of stats, with the byte lengths of
\* each name and value
StatNames == <<"version", "curr_connections", "total_connections", "cmd_get", "cmd_set">>
StatNameLen == <<7, 16, 17, 7, 7>>
StatValueLen == <<5, 1, 1, 1, 1>>
\* Server::version, "0.0.0" unless set
VersionLen == 5

\* Response::format
format(r) ==
    CASE r.kind = "Values" ->
            [i \in 1..Len(r.items) |->
                TextLine(<<"VALUE", r.items[i].key, r.items[i].data>>)]
            \o <<TextLine(<<"END">>)>>
      [] r.kind = "Version" -> <<TextLine(<<"VERSION">>)>>
      [] r.kind = "Stats" ->
            [i \in 1..Len(StatNames) |-> TextLine(<<"STAT", StatNames[i]>>)]
            \o <<TextLine(<<"END">>)>>
      [] r.kind = "Touched" -> <<TextLine(<<"TOUCHED">>)>>
      [] r.kind = "Error" -> <<TextLine(<<"ERROR">>)>>
      [] r.kind = "MetaValue" -> <<TextLine(<<"VA", r.items[1].data>>)>>
      [] r.kind = "MetaEnd" -> <<TextLine(<<"EN">>)>>
      [] r.kind = "MetaNoOp" -> <<TextLine(<<"MN">>)>>

\* serialize_binary_response: Ok(bytes), or Err for the meta responses
serialize_binary_response(r, opaque) ==
    CASE r.kind = "Values" ->
            [ok |-> TRUE,
             units |-> [i \in 1..Len(r.items) |->
                          BinaryHeader(OPCODE_GET, 0, 4, STATUS_SUCCESS, 4 + ValueLen,
                                       opaque, <<r.items[i].data>>)]]
      [] r.kind = "Version" ->
            [ok |-> TRUE,
             units |-> <<new_response(OPCODE_VERSION, 0, 0, STATUS_SUCCESS, VersionLen,
                                      <<"0.0.0">>)>>]
      [] r.kind = "Stats" ->
            [ok |-> TRUE,
             units |-> [i \in 1..Len(StatNames) |->
                          new_response(OPCODE_STAT, StatNameLen[i], 0, STATUS_SUCCESS,
                                       StatNameLen[i] + StatValueLen[i], <<StatNames[i]>>)]
                       \o <<new_response(OPCODE_STAT, 0, 0, STATUS_SUCCESS, 0, <<>>)>>]
      [] r.kind = "Touched" ->
            [ok |-> TRUE, units |-> <<new_response(OPCODE_NOOP, 0, 0, STATUS_SUCCESS, 0, <<>>)>>]
      [] r.kind = "Error" ->
            [ok |-> TRUE,
             units |-> <<new_response(OPCODE_NOOP, 0, 0, STATUS_UNKNOWN_COMMAND, 0, <<>>)>>]
      [] OTHER -> [ok |-> FALSE, units |-> <<>>]

\* fault variant of serialize: every dialect is formatted as text
serialize_as_text(r, protocol) == format(r)

\* Response::serialize and serialize_binary (with its b"ERROR\r\n" fallback)
serialize(r, protocol) ==
    IF protocol.type \in {"Text", "Meta"}
    THEN format(r)
    ELSE LET b == serialize_binary_response(r, protocol.opaque)
         IN  IF b.ok THEN b.units ELSE <<TextLine(<<"ERROR">>)>>

\* no protocol-level connection is modelled
NoCtx == [command |-> NoCmd, protocol |-> Text, id |-> 0]
NoItems == [todo |-> <<>>, got |-> <<>>]

NoProtocol ==
    /\ getter = "some"
    /\ overflow_checks = FALSE
    /\ sent = <<>>
    /\ consumed = 0
    /\ ppc = "closed"
    /\ ctx = NoCtx
    /\ items = NoItems
    /\ wire = <<>>

\* ------------------------------------------------------- router and sources
\* Strings are sequences of one-character strings. A HashMap<String, String>
\* is a function from names to strings; <<>> is the empty map.
NoMap == <<>>

\* HashMap::insert / serde_json::Map::insert: the last value for a key wins
insert(map, k, v) == [x \in DOMAIN map \cup {k} |-> IF x = k THEN v ELSE map[x]]

DollarKey == <<"$", "k", "e", "y">>

\* Option<Arc<Sources>> of a request: None, or a map from source name to source
NoHandle == [some |-> FALSE, map |-> NoMap]
Handle(map) == [some |-> TRUE, map |-> map]

NoRequest == [some |-> FALSE, key |-> <<>>, captures |-> NoMap, sources |-> NoHandle]

\* Request::new(key): the capture map is HashMap::new()
Request_new(key) ==
    [some |-> TRUE, key |-> key, captures |-> NoMap, sources |-> NoHandle]

\* A compiled Regex, as the parts of an anchored pattern ^...$ :
\*   Lit(c)      the character c
\*   Group(n)    (?<n>[^/]+)
\*   Opt(n)      (?<n>[^/]+)?   (last part only)
\*   Rest        .*             (last part only)
Lit(c) == [t |-> "lit", c |-> c, name |-> <<>>]
Group(n) == [t |-> "group", c |-> "", name |-> n]
Opt(n) == [t |-> "opt", c |-> "", name |-> n]
Rest == [t |-> "rest", c |-> "", name |-> <<>>]

NoMatch == [ok |-> FALSE, caps |-> NoMap]

\* the length of the longest prefix of s without a '/'
RECURSIVE segment(_)
segment(s) == IF s = <<>> \/ Head(s) = "/" THEN 0 ELSE 1 + segment(Tail(s))

\* Regex::captures(key) with Captures::name for every capture name: the
\* groups that took part in the match, or no match
RECURSIVE re_captures(_, _)
re_captures(re, key) ==
    IF re = <<>> THEN [ok |-> key = <<>>, caps |-> NoMap]
    ELSE LET p == Head(re)
             n == segment(key)
             after == re_captures(Tail(re), SubSeq(key, n + 1, Len(key)))
         IN  CASE p.t = "lit" ->
                    IF key /= <<>> /\ Head(key) = p.c
                    THEN re_captures(Tail(re), Tail(key))
                    ELSE NoMatch
               [] p.t = "rest" -> [ok |-> TRUE, caps |-> NoMap]
               [] p.t = "group" ->
                    IF n > 0 /\ after.ok
                    THEN [ok |-> TRUE, caps |-> insert(after.caps, p.name, SubSeq(key, 1, n))]
                    ELSE NoMatch
               [] p.t = "opt" ->
                    IF n = 0 THEN re_captures(Tail(re), key)
                    ELSE IF after.ok
                    THEN [ok |-> TRUE, caps |-> insert(after.caps, p.name, SubSeq(key, 1, n))]
                    ELSE NoMatch

\* Request::match_regex(re, key)
match_regex(re, key) ==
    LET caps == re_captures(re, key)
    IN  IF ~caps.ok THEN NoRequest
        ELSE [some |-> TRUE, key |-> key,
              captures |-> insert(caps.caps, DollarKey, key),
              sources |-> NoHandle]

\* router::Rule::match_key(key)
match_key(rule, key) == match_regex(rule.re, key)

\* Option<(Request, &Rule)>: idx is the rule's position in Router::rules, 0 for None
NoRouted == [called |-> FALSE, key |-> <<>>, idx |-> 0, request |-> NoRequest]
Routed(key, idx, req) == [called |-> TRUE, key |-> key, idx |-> idx, request |-> req]

\* the loop of Router::rule, from the i-th rule on
RECURSIVE rule_from(_, _, _)
rule_from(rules, key, i) ==
    IF i > Len(rules) THEN Routed(key, 0, NoRequest)
    ELSE IF match_key(rules[i], key).some
    THEN Routed(key, i, match_key(rules[i], key))
    ELSE rule_from(rules, key, i + 1)

\* a faulty variant of Router::rule: the last matching rule wins
rule_last_match(rules, key) ==
    LET matching == {i \in 1..Len(rules) : match_key(rules[i], key).some}
        last == CHOOSE i \in matching : \A j \in matching : j <= i
    IN  IF matching = {} THEN Routed(key, 0, NoRequest)
        ELSE Routed(key, last, match_key(rules[last], key))

\* Router::rule(key)
rule(rules, key) == rule_from(rules, key, 1)

\* MonitorConfig::default() and Response::new(): zero durations, no value
Response_new == [called |-> TRUE, has_value |-> FALSE, value |-> <<>>, ttl |-> 0, expiry |-> 0]
NoResponse == [Response_new EXCEPT !.called = FALSE]

\* Response::with_value, with_ttl, with_expiry
with_value(r, value) == [r EXCEPT !.has_value = TRUE, !.value = value]
with_ttl(r, ttl) == [r EXCEPT !.ttl = ttl]
with_expiry(r, expiry) == [r EXCEPT !.expiry = expiry]

\* the scan of replace_placeholders: { opens a frame, } pops the top frame and
\* looks its name up, text goes to the top frame or, with no frame open, to
\* the output
RECURSIVE scan(_, _, _)
scan(template, captures, st) ==
    LET emit(s, text) ==
            IF s.stack = <<>> THEN [s EXCEPT !.out = @ \o text]
            ELSE [s EXCEPT !.stack[Len(s.stack)] = @ \o text]
        c == Head(template)
        name == st.stack[Len(st.stack)]
        popped == [st EXCEPT !.stack = SubSeq(@, 1, Len(@) - 1)]
        next == CASE c = "{" -> [st EXCEPT !.stack = Append(@, <<>>)]
                  [] c = "}" /\ st.stack /= <<>> ->
                        IF name \in DOMAIN captures THEN emit(popped, captures[name])
                        ELSE popped
                  [] OTHER -> emit(st, <<c>>)
    IN  IF template = <<>> THEN st.out
        ELSE scan(Tail(template), captures, next)

\* replace_placeholders(template, captures)
replace_placeholders(template, captures) ==
    scan(template, captures, [stack |-> <<>>, out |-> <<>>])

\* a source: Echo, Merge or FnGetter; func is the closure's answer for every key
NoFunc == [some |-> FALSE, value |-> <<>>]
Func(value) == [some |-> TRUE, value |-> value]
NoSource == [kind |-> "None", ttl |-> 0, expiry |-> 0, template |-> <<>>,
             rules |-> <<>>, func |-> NoFunc]

\* Echo::new(), Merge::new(), source(func)
Echo_new == [NoSource EXCEPT !.kind = "Echo"]
Merge_new == [NoSource EXCEPT !.kind = "Merge"]
FnGetter_new(func) == [NoSource EXCEPT !.kind = "FnGetter", !.ttl = 5, !.expiry = 30,
                                       !.func = func]

\* fault variant of Echo::call: the template is returned as it was written
Echo_call_raw_template(self, req) ==
    LET resp == with_ttl(with_expiry(Response_new, self.expiry), self.ttl)
    IN  with_value(resp, self.template)

\* <Echo as Source>::call
Echo_call(self, req) ==
    LET resp == with_ttl(with_expiry(Response_new, self.expiry), self.ttl)
        value == replace_placeholders(self.template, req.captures)
    IN  with_value(resp, value)

\* <FnGetter as Source>::call
FnGetter_call(self, req) ==
    LET resp == with_ttl(with_expiry(Response_new, self.expiry), self.ttl)
    IN  IF self.func.some THEN with_value(resp, self.func.value) ELSE resp

\* the call of a source held in a Sources map
child_call(self, req) ==
    IF self.kind = "Echo" THEN Echo_call(self, req) ELSE FnGetter_call(self, req)

\* serde_json::Value: a string or an object
Str(s) == [t |-> "str", s |-> s, m |-> NoMap]
Obj(m) == [t |-> "obj", s |-> <<>>, m |-> m]

\* serde_json::from_str::<Value>(text): an object, a string, or Err
from_str(text) ==
    IF text = <<"{", "}">> THEN [ok |-> TRUE, value |-> Obj(NoMap)]
    ELSE IF /\ Len(text) >= 2
            /\ text[1] = "\""
            /\ text[Len(text)] = "\""
            /\ \A i \in 2..(Len(text) - 1) : text[i] /= "\""
    THEN [ok |-> TRUE, value |-> Str(SubSeq(text, 2, Len(text) - 1))]
    ELSE [ok |-> FALSE, value |-> Str(<<>>)]

\* the names a key path is made of, in the order serde_json::Map keeps them
JsonKeys == <<"a", "b">>

\* serde_json::to_string
RECURSIVE to_string(_)
RECURSIVE members(_, _, _)
members(m, i, first) ==
    IF i > Len(JsonKeys) THEN <<>>
    ELSE IF JsonKeys[i] \notin DOMAIN m THEN members(m, i + 1, first)
    ELSE (IF first THEN <<>> ELSE <<",">>)
         \o <<"\"", JsonKeys[i], "\"", ":">> \o to_string(m[JsonKeys[i]])
         \o members(m, i + 1, FALSE)
to_string(v) ==
    IF v.t = "str" THEN <<"\"">> \o v.s \o <<"\"">>
    ELSE <<"{">> \o members(v.m, 1, TRUE) \o <<"}">>

\* Merge::set_nested_value(map, key_path, value)
RECURSIVE set_nested_value(_, _, _)
set_nested_value(map, key_path, value) ==
    IF key_path = <<>> THEN map
    ELSE IF Len(key_path) = 1 THEN insert(map, key_path[1], value)
    ELSE LET current_key == key_path[1]
             nested_map == IF current_key \in DOMAIN map THEN map[current_key]
                           ELSE Obj(NoMap)
         IN  IF nested_map.t = "obj"
             THEN insert(map, current_key,
                         Obj(set_nested_value(nested_map.m, Tail(key_path), value)))
             ELSE map

\* merge::RuleArgs and merge::Rule
Inherit == [inherit |-> TRUE, args |-> NoMap]
Replace(args) == [inherit |-> FALSE, args |-> args]
MergeRule(key, src, args) == [key |-> key, source |-> src, args |-> args]

\* the request Merge::call hands to the source of a rule
replace_request(r, req) ==
    IF r.args.inherit THEN req
    ELSE LET processed_captures ==
                 [n \in DOMAIN r.args.args |->
                     replace_placeholders(r.args.args[n], req.captures)]
         IN  [Request_new(req.key) EXCEPT !.captures = processed_captures,
                                          !.sources = req.sources]

\* the value of a child response as JSON: parsed, or a string when it does not parse
json_value(value) == IF from_str(value).ok THEN from_str(value).value ELSE Str(value)

\* the loop of Merge::call over self.rules
RECURSIVE merged_results(_, _, _)
merged_results(rules, req, merged) ==
    IF rules = <<>> THEN merged
    ELSE LET r == Head(rules)
             sources == req.sources.map
         IN  IF r.source \notin DOMAIN sources
             THEN merged_results(Tail(rules), req, merged)
             ELSE LET source_response == child_call(sources[r.source], replace_request(r, req))
                  IN  IF source_response.has_value
                      THEN merged_results(Tail(rules), req,
                               set_nested_value(merged, r.key, json_value(source_response.value)))
                      ELSE merged_results(Tail(rules), req, merged)

\* a faulty variant of Merge::call: an empty merge is returned as a miss
Merge_call_empty_is_miss(self, req) ==
    LET resp == with_ttl(with_expiry(Response_new, self.expiry), self.ttl)
        merged == merged_results(self.rules, req, NoMap)
    IN  IF ~req.sources.some \/ merged = NoMap THEN resp
        ELSE with_value(resp, to_string(Obj(merged)))

\* <Merge as Source>::call
Merge_call(self, req) ==
    LET resp == with_ttl(with_expiry(Response_new, self.expiry), self.ttl)
    IN  IF ~req.sources.some THEN resp
        ELSE with_value(resp, to_string(Obj(merged_results(self.rules, req, NoMap))))

\* nothing routed, no request, no source, no call
NoSourceCall ==
    /\ router = <<>>
    /\ routed = NoRouted
    /\ request = NoRequest
    /\ source = NoSource
    /\ response = NoResponse

\* ------------------------------------------------------------- connection
NoRet == [key |-> "-", value |-> None]

ClosedConn == [pc |-> "closed", key |-> "-", created |-> 0, ret |-> NoRet,
               notified |-> FALSE]

\* Server::run up to its loop: the Writer thread is spawned, the first tick of
\* monitor_interval is due at once, no connection is accepted yet
Init ==
    /\ now = 0
    /\ tickDue = 1
    /\ lock = "free"
    /\ tasks = [k \in Keys |-> NoTask]
    /\ conn = [c \in Conns |-> ClosedConn]
    /\ mainPc = "select"
    /\ tickTodo = {}
    /\ tickKey = "-"
    /\ tickSkipped = {}
    /\ sigs = {}
    /\ mainNotified = FALSE
    /\ nCmds = 0
    /\ jobs = <<>>
    /\ nSent = 0
    /\ shutdownTok = 0
    /\ wpc = "loop"
    /\ wOwner = "held"
    /\ tierUp = TRUE
    /\ writers = 1
    /\ lastSend = "none"
    /\ client = IF tierUp THEN "ok" ELSE "err"
    /\ warm = [k \in Keys |-> None]
    /\ lastSeq = 0
    /\ lastAttempt = 0
    /\ sentAtShutdown = 0
    /\ NoProtocol
    /\ NoSourceCall

\* Arc::strong_count of the Writer: run's `target`, one clone per connection
\* task, one per MonitorTask in the table, one per MonitorTask being built
StrongCount ==
    (IF wOwner = "held" THEN 1 ELSE 0)
    + Cardinality({c \in Conns : conn[c].pc \in {"select", "lockwait", "calling", "respond"}})
    + Cardinality({c \in Conns : conn[c].pc = "calling"})
    + Cardinality({k \in Keys : tasks[k].present /\ tasks[k].target})

\* listener.accept() branch of run's select!: spawn the connection task
\* (sockets are accepted in the order c1, c2)
Accept(c) ==
    /\ mainPc = "select"
    /\ conn[c].pc = "closed"
    /\ c = "c2" => conn["c1"].pc /= "closed"
    /\ conn' = [conn EXCEPT ![c].pc = "select"]
    /\ mainNotified' = FALSE
    /\ UNCHANGED <<sourceVars, clockVars, engineVars, mainPc, sigs, nCmds, chanVars, threadVars, tierUp, writers, lastSend, protoVars>>

\* recv_command yields Get([k]); handle_command awaits monitor_tasks.lock()
RecvGet(c, k) ==
    /\ conn[c].pc = "select"
    /\ nCmds < MaxCmds
    /\ nCmds' = nCmds + 1
    /\ conn' = [conn EXCEPT ![c] = [pc |-> "lockwait", key |-> k, created |-> 0,
                                    ret |-> NoRet, notified |-> FALSE]]
    /\ UNCHANGED <<sourceVars, clockVars, engineVars, mainPc, sigs, mainNotified, chanVars, threadVars, tierUp, writers, lastSend, protoVars>>

\* fault variant of held_by: the guard is dropped before the getter is awaited
held_by_nobody(who) == "free"

\* the lock a caller that just acquired the Mutex holds while the getter runs
held_by(who) == who

\* get_or_create_monitor_task from the lock to the return of a cached value or
\* to the getter's await
Acquire(c) ==
    LET k == conn[c].key
        old == tasks[k]
        touched == IF old.present THEN touch(old, now) ELSE old
    IN  /\ conn[c].pc = "lockwait"
        /\ lock = "free"
        /\ tasks' = [tasks EXCEPT ![k] = touched]
        /\ IF old.present /\ old.last_result /= None
           THEN /\ conn' = [conn EXCEPT ![c].pc = "respond", ![c].key = "-",
                                 ![c].ret = [key |-> k, value |-> old.last_result]]
                /\ UNCHANGED lock
           ELSE /\ lock' = held_by(c)
                /\ conn' = [conn EXCEPT ![c].pc = "calling", ![c].created = now]
        /\ UNCHANGED <<sourceVars, clockVars, tickTodo, tickKey, tickSkipped, mainPc, sigs, mainNotified,
                       nCmds, chanVars, threadVars, tierUp, writers, lastSend, protoVars>>

\* the getter returns `o`: MonitorTask::get finishes, the task is inserted
CallReturn(c, o) ==
    LET k == conn[c].key
        mt == get_task(touch(NewTask(conn[c].created, TRUE), conn[c].created), o, now, FALSE)
    IN  /\ conn[c].pc = "calling"
        /\ tasks' = [tasks EXCEPT ![k] = mt]
        /\ get_chan(mt, k, o)
        /\ lock' = "free"
        /\ conn' = [conn EXCEPT ![c].pc = "respond", ![c].key = "-", ![c].created = 0,
                         ![c].ret = [key |-> k, value |-> o]]
        /\ UNCHANGED <<sourceVars, clockVars, tickTodo, tickKey, tickSkipped, mainPc, sigs,
                       mainNotified, nCmds, shutdownTok, wOwner, sentAtShutdown, threadVars,
                       tierUp, writers, protoVars>>

\* the response is serialized and written: writer.write_all(..).await, then
\* the connection task is back in its select!
Respond(c) ==
    /\ conn[c].pc = "respond"
    /\ conn' = [conn EXCEPT ![c].pc = "select", ![c].ret = NoRet]
    /\ UNCHANGED <<sourceVars, clockVars, engineVars, mainPc, sigs, mainNotified, nCmds, chanVars,
                   threadVars, tierUp, writers, lastSend, protoVars>>

\* Quit: handle_command returns Ok(None), the connection loop breaks
Quit(c) ==
    /\ conn[c].pc = "select"
    /\ conn' = [conn EXCEPT ![c].pc = "done", ![c].notified = FALSE]
    /\ UNCHANGED <<sourceVars, clockVars, engineVars, mainPc, sigs, mainNotified, nCmds, chanVars,
                   threadVars, tierUp, writers, lastSend, protoVars>>

\* notify.notified() branch of the connection's select!
ConnBreak(c) ==
    /\ conn[c].pc = "select"
    /\ conn[c].notified
    /\ conn' = [conn EXCEPT ![c].pc = "done", ![c].notified = FALSE]
    /\ UNCHANGED <<sourceVars, clockVars, engineVars, mainPc, sigs, mainNotified, nCmds, chanVars,
                   threadVars, tierUp, writers, lastSend, protoVars>>

\* ------------------------------------------------------------- run loop
\* monitor_interval.tick() branch of run's select!: await monitor_tasks.lock()
MainTick ==
    /\ mainPc = "select"
    /\ tickDue > 0
    /\ tickDue' = tickDue - 1
    /\ mainPc' = "tick_lockwait"
    /\ mainNotified' = FALSE
    /\ UNCHANGED <<sourceVars, now, engineVars, conn, sigs, nCmds, chanVars, threadVars, tierUp, writers, lastSend, protoVars>>

\* the tick holds the lock and starts `for task in tasks.values_mut()`
MainTickAcquire ==
    /\ mainPc = "tick_lockwait"
    /\ lock = "free"
    /\ lock' = held_by("main")
    /\ tickTodo' = {k \in Keys : tasks[k].present}
    /\ mainPc' = "tick_iter"
    /\ UNCHANGED <<sourceVars, clockVars, tasks, tickKey, tickSkipped, conn, sigs, mainNotified,
                   nCmds, chanVars, threadVars, tierUp, writers, lastSend, protoVars>>

\* whether the loop body `if !task.has_expired() { task.tick().await }` reaches
\* the getter: MonitorTask::tick returns before it on an expired task
tick_calls(task, t) ==
    /\ ~has_expired(task, t)    \* MonitorTasks::tick
    /\ ~has_expired(task, t)    \* MonitorTask::tick
    /\ refresh_due(task, t)

\* one iteration of the loop over tasks.values_mut(), up to an await
MainTickVisit(k) ==
    /\ mainPc = "tick_iter"
    /\ k \in tickTodo
    /\ tickTodo' = tickTodo \ {k}
    /\ tickSkipped' = IF has_expired(tasks[k], now) THEN tickSkipped \cup {k}
                      ELSE tickSkipped
    /\ IF tick_calls(tasks[k], now)
       THEN /\ tickKey' = k
            /\ mainPc' = "tick_calling"
       ELSE UNCHANGED <<sourceVars, tickKey, mainPc>>
    /\ UNCHANGED <<sourceVars, clockVars, lock, tasks, conn, sigs, mainNotified, nCmds, chanVars,
                   threadVars, tierUp, writers, lastSend, protoVars>>

\* the getter awaited by MonitorTask::tick returns `o`
MainTickReturn(o) ==
    LET k == tickKey
        mt == get_task(tasks[k], o, now, TRUE)
    IN  /\ mainPc = "tick_calling"
        /\ tasks' = [tasks EXCEPT ![k] = mt]
        /\ get_chan(mt, k, o)
        /\ tickKey' = "-"
        /\ mainPc' = "tick_iter"
        /\ UNCHANGED <<sourceVars, clockVars, lock, tickTodo, tickSkipped, conn, sigs,
                       mainNotified, nCmds, shutdownTok, wOwner, sentAtShutdown, threadVars,
                       tierUp, writers, protoVars>>

\* the loop over the tasks ends: the guard is dropped, back to select!
MainTickDone ==
    /\ mainPc = "tick_iter"
    /\ tickTodo = {}
    /\ lock' = "free"
    /\ mainPc' = "select"
    /\ tickSkipped' = {}
    /\ UNCHANGED <<sourceVars, clockVars, tasks, tickTodo, tickKey, conn, sigs, mainNotified,
                   nCmds, chanVars, threadVars, tierUp, writers, lastSend, protoVars>>

\* a signal listener task runs notify_waiters(): only the notified() futures
\* that exist at this instant (tasks parked in their select!) are woken
Signal(s) ==
    /\ s \notin sigs
    /\ sigs' = sigs \cup {s}
    /\ mainNotified' = (mainNotified \/ mainPc = "select")
    /\ conn' = [c \in Conns |->
                  [conn[c] EXCEPT !.notified = (conn[c].notified \/ conn[c].pc = "select")]]
    /\ UNCHANGED <<sourceVars, clockVars, engineVars, mainPc, nCmds, chanVars, threadVars, tierUp, writers, lastSend, protoVars>>

\* self.notify_shutdown.notified() branch of run's select!: break
MainBreak ==
    /\ mainPc = "select"
    /\ mainNotified
    /\ mainPc' = "stopping"
    /\ mainNotified' = FALSE
    /\ UNCHANGED <<sourceVars, clockVars, engineVars, conn, sigs, nCmds, chanVars, threadVars, tierUp, writers, lastSend, protoVars>>

\* Arc::try_unwrap(target) succeeds only for the last strong reference
try_unwrap_ok == StrongCount = 1

\* Writer::shutdown up to the join: the token is sent
shutdown_signal ==
    /\ shutdownTok' = shutdownTok + 1
    /\ wOwner' = "joining"
    /\ sentAtShutdown' = nSent

\* run after the loop: `if let Ok(writer) = Arc::try_unwrap(target) { writer.shutdown() }`
MainShutdownWriter ==
    /\ mainPc = "stopping"
    /\ IF try_unwrap_ok
       THEN /\ shutdown_signal
            /\ mainPc' = "joining"
       ELSE /\ wOwner' = "dropped"
            /\ mainPc' = "returned"
            /\ UNCHANGED <<sourceVars, shutdownTok, sentAtShutdown>>
    /\ UNCHANGED <<sourceVars, clockVars, engineVars, conn, sigs, mainNotified, nCmds, jobs, nSent,
                   threadVars, tierUp, writers, lastSend, protoVars>>

\* Writer::shutdown: self.handle.join() returns once the thread has exited
shutdown_join ==
    /\ wOwner = "joining"
    /\ wpc = "exited"
    /\ wOwner' = "joined"

MainJoin ==
    /\ mainPc = "joining"
    /\ shutdown_join
    /\ mainPc' = "returned"
    /\ UNCHANGED <<sourceVars, clockVars, engineVars, conn, sigs, mainNotified, nCmds, jobs, nSent,
                   shutdownTok, sentAtShutdown, threadVars, tierUp, writers, lastSend, protoVars>>

\* some task of the runtime can run without waiting for the source, the lock
\* or the clock: a branch of run's select! is ready, a free lock is being
\* awaited, the tick is between two awaits, a response is ready to be written
Runnable ==
    \/ mainPc = "select" /\ tickDue > 0
    \/ mainPc = "tick_lockwait" /\ lock = "free"
    \/ mainPc = "tick_iter"
    \/ \E c \in Conns : conn[c].pc = "lockwait" /\ lock = "free"
    \/ \E c \in Conns : conn[c].pc = "respond"

\* a second passes while every task waits (a getter call may take seconds,
\* the steps between awaits do not); monitor_interval fires unless run has
\* left its loop
Advance ==
    /\ now < MaxTime
    /\ ~Runnable
    /\ now' = now + TickPeriod
    /\ tickDue' = IF mainPc \in {"stopping", "joining", "returned", "harness"}
                  THEN tickDue
                  ELSE IF tickDue < MaxPendingTicks THEN tickDue + 1 ELSE tickDue
    /\ UNCHANGED <<sourceVars, engineVars, serverVars, chanVars, threadVars, tierUp, writers, lastSend, protoVars>>

\* --------------------------------------------------------- writer thread
\* Writer::client: Ok when the warm tier accepts the connection
client_result == IF tierUp THEN "ok" ELSE "err"

\* fault variant of Dequeue: the newest job is taken first
DequeueNewest(q) == [job |-> q[Len(q)], rest |-> SubSeq(q, 1, Len(q) - 1)]

\* rx.recv_timeout / rx.try_recv: the job taken and the channel left
Dequeue(q) == [job |-> Head(q), rest |-> Tail(q)]

\* fault variant of process: the job is taken and nothing is written
process_nothing(job) ==
    /\ lastSeq' = job.seq
    /\ UNCHANGED <<sourceVars, client, warm, lastAttempt>>

\* Writer::process on the job taken from the channel
process(job) ==
    /\ lastSeq' = job.seq
    /\ IF client = "ok"
       THEN /\ lastAttempt' = job.seq      \* c.set / c.delete is called
            /\ IF tierUp
               THEN /\ warm' = [warm EXCEPT ![job.key] = job.value]
                    /\ client' = "ok"
               ELSE /\ client' = client_result
                    /\ UNCHANGED warm
       ELSE /\ client' = client_result      \* only logged, then a new client
            /\ UNCHANGED <<sourceVars, warm, lastAttempt>>

\* fault variant of WLoop: the loop also ends when the senders are gone
WLoop_ends_on_disconnect ==
    /\ wpc = "loop"
    /\ IF shutdownTok > 0 \/ wOwner = "dropped"
       THEN /\ shutdownTok' = IF shutdownTok > 0 THEN shutdownTok - 1 ELSE shutdownTok
            /\ wpc' = "drain"
            /\ UNCHANGED <<sourceVars, jobs, client, warm, lastSeq, lastAttempt>>
       ELSE IF jobs /= <<>>
            THEN /\ process(Dequeue(jobs).job)
                 /\ jobs' = Dequeue(jobs).rest
                 /\ UNCHANGED <<sourceVars, shutdownTok, wpc>>
            ELSE UNCHANGED <<sourceVars, shutdownTok, wpc, jobs, client, warm, lastSeq, lastAttempt>>
    /\ UNCHANGED <<sourceVars, clockVars, engineVars, serverVars, nSent, wOwner, sentAtShutdown, tierUp, writers, lastSend, protoVars>>

\* one iteration of the thread's loop: try_recv on the shutdown channel, then
\* recv_timeout(10ms) on the job channel; a dropped shutdown sender makes
\* try_recv an Err like an empty channel, and both Err arms of recv_timeout
\* are empty
WLoop ==
    /\ wpc = "loop"
    /\ IF shutdownTok > 0
       THEN /\ shutdownTok' = shutdownTok - 1
            /\ wpc' = "drain"
            /\ UNCHANGED <<sourceVars, jobs, client, warm, lastSeq, lastAttempt>>
       ELSE IF jobs /= <<>>
            THEN /\ process(Dequeue(jobs).job)
                 /\ jobs' = Dequeue(jobs).rest
                 /\ UNCHANGED <<sourceVars, shutdownTok, wpc>>
            ELSE UNCHANGED <<sourceVars, shutdownTok, wpc, jobs, client, warm, lastSeq, lastAttempt>>
    /\ UNCHANGED <<sourceVars, clockVars, engineVars, serverVars, nSent, wOwner, sentAtShutdown, tierUp, writers, lastSend, protoVars>>

\* fault variant of drain_done: the thread leaves without draining
drain_skipped(q) == TRUE

\* `while let Ok(job) = rx.try_recv()` ends on the first Err: the channel is empty
drain_done(q) == q = <<>>

\* `while let Ok(job) = rx.try_recv()`, then the thread ends and drops rx
WDrain ==
    /\ wpc = "drain"
    /\ IF ~drain_done(jobs)
       THEN /\ process(Dequeue(jobs).job)
            /\ jobs' = Dequeue(jobs).rest
            /\ UNCHANGED wpc
       ELSE /\ wpc' = "exited"
            /\ UNCHANGED <<sourceVars, jobs, client, warm, lastSeq, lastAttempt>>
    /\ UNCHANGED <<sourceVars, clockVars, engineVars, serverVars, nSent, shutdownTok, wOwner,
                   sentAtShutdown, tierUp, writers, lastSend, protoVars>>

\* the warm-tier memcached goes away or comes back
TierFlap ==
    /\ tierUp' = ~tierUp
    /\ UNCHANGED <<sourceVars, clockVars, engineVars, serverVars, chanVars, threadVars, writers, lastSend, protoVars>>

\* ------------------------------------------------- the Writer used directly
\* (as writer.rs's tests do: Writer::new, send.., shutdown)
\* Writer::new alone: no server, no connection, no tick
InitHarness ==
    /\ now = 0
    /\ tickDue = 0
    /\ lock = "free"
    /\ tasks = [k \in Keys |-> NoTask]
    /\ conn = [c \in Conns |-> ClosedConn]
    /\ mainPc = "harness"
    /\ tickTodo = {}
    /\ tickKey = "-"
    /\ tickSkipped = {}
    /\ sigs = {}
    /\ mainNotified = FALSE
    /\ nCmds = 0
    /\ jobs = <<>>
    /\ nSent = 0
    /\ shutdownTok = 0
    /\ wpc = "loop"
    /\ wOwner = "held"
    /\ tierUp \in BOOLEAN
    /\ writers = 1
    /\ lastSend = "none"
    /\ client = IF tierUp THEN "ok" ELSE "err"
    /\ warm = [k \in Keys |-> None]
    /\ lastSeq = 0
    /\ lastAttempt = 0
    /\ sentAtShutdown = 0
    /\ NoProtocol
    /\ NoSourceCall

\* Writer::send(key, value, ttl) by the owner of the Writer
WSend(k, v) ==
    /\ mainPc = "harness"
    /\ wOwner = "held"
    /\ nSent < MaxSends
    /\ send(k, v, TTL)
    /\ UNCHANGED <<sourceVars, clockVars, engineVars, serverVars, shutdownTok, wOwner, sentAtShutdown,
                   threadVars, tierUp, writers, protoVars>>

\* sender.send(job) on a clone of writer.sender, which outlives the Writer
WSendClone(k, v) ==
    /\ mainPc = "harness"
    /\ send_ok => nSent < MaxSends
    /\ send(k, v, TTL)
    /\ UNCHANGED <<sourceVars, clockVars, engineVars, serverVars, shutdownTok, wOwner, sentAtShutdown,
                   threadVars, tierUp, writers, protoVars>>

\* Writer::shutdown(self): signal
WShutdown ==
    /\ mainPc = "harness"
    /\ wOwner = "held"
    /\ shutdown_signal
    /\ UNCHANGED <<sourceVars, clockVars, engineVars, serverVars, jobs, nSent, threadVars, tierUp, writers, lastSend, protoVars>>

\* Writer::shutdown(self): join
WJoin ==
    /\ mainPc = "harness"
    /\ shutdown_join
    /\ UNCHANGED <<sourceVars, clockVars, engineVars, serverVars, jobs, nSent, shutdownTok,
                   sentAtShutdown, threadVars, tierUp, writers, lastSend, protoVars>>

\* the Writer goes out of scope without shutdown: its sender and its shutdown
\* sender are dropped, the JoinHandle is dropped and the thread detached
WDrop ==
    /\ mainPc = "harness"
    /\ wOwner = "held"
    /\ wOwner' = "dropped"
    /\ UNCHANGED <<sourceVars, clockVars, engineVars, serverVars, jobs, nSent, shutdownTok,
                   sentAtShutdown, threadVars, tierUp, writers, lastSend, protoVars>>

\* --------------------------------------------------------- specifications
\* the server from the start of run to its return, within its first second:
\* connections come and go, the first tick runs, signals arrive, the Writer
\* is shut down
Next ==
    \/ \E c \in Conns : Accept(c)
    \/ \E c \in Conns, k \in Keys : RecvGet(c, k)
    \/ \E c \in Conns : Acquire(c)
    \/ \E c \in Conns, o \in Outcomes : CallReturn(c, o)
    \/ \E c \in Conns : Respond(c)
    \/ \E c \in Conns : Quit(c)
    \/ \E c \in Conns : ConnBreak(c)
    \/ MainTick
    \/ MainTickAcquire
    \/ \E k \in Keys : MainTickVisit(k)
    \/ MainTickDone
    \/ \E s \in Signals : Signal(s)
    \/ MainBreak
    \/ MainShutdownWriter
    \/ MainJoin
    \/ WLoop
    \/ WDrain

Spec == Init /\ [][Next]_vars

\* the writer thread is an OS thread: it keeps being scheduled
FairSpec == Spec /\ WF_vars(WLoop) /\ WF_vars(WDrain)

\* the refresh engine over MaxTime seconds: two connections asking for one
\* key and the 1 Hz tick. The writer thread only takes jobs from the head of
\* the channel, which no step of the engine reads: it is left unscheduled.
NextTimed ==
    \/ \E c \in Conns : Accept(c)
    \/ \E c \in Conns : RecvGet(c, "k1")
    \/ \E c \in Conns : Acquire(c)
    \/ \E c \in Conns, o \in Outcomes : CallReturn(c, o)
    \/ \E c \in Conns : Respond(c)
    \/ MainTick
    \/ MainTickAcquire
    \/ \E k \in Keys : MainTickVisit(k)
    \/ \E o \in Outcomes : MainTickReturn(o)
    \/ MainTickDone
    \/ Advance

TimedSpec == Init /\ [][NextTimed]_vars

NextWriter ==
    \/ \E k \in Keys, v \in Outcomes : WSend(k, v)
    \/ \E k \in Keys, v \in Outcomes : WSendClone(k, v)
    \/ WShutdown
    \/ WJoin
    \/ WLoop
    \/ WDrain
    \/ TierFlap

WriterSpec == InitHarness /\ [][NextWriter]_vars

\* the Writer shut down or dropped by its owner, the thread being scheduled
NextWriterLife ==
    \/ NextWriter
    \/ WDrop

WriterLifeSpec ==
    InitHarness /\ [][NextWriterLife]_vars /\ WF_vars(WLoop) /\ WF_vars(WDrain)

\* an instant read one second later, on a clock whose reading stays at MaxTime
\* (instants more than MaxTime seconds old all read 0: MaxTime is past TTL
\* and Interval, so has_expired and refresh_due answer the same for them)
earlier(t) == IF t > 0 THEN t - TickPeriod ELSE 0

\* a second passes after MaxTime: the clock reading is kept and every stored
\* instant moves one second back instead; monitor_interval keeps firing
AdvancePast ==
    /\ now = MaxTime
    /\ ~Runnable
    /\ tasks' = [k \in Keys |->
                   [tasks[k] EXCEPT !.until = earlier(@), !.updated_at = earlier(@)]]
    /\ conn' = [c \in Conns |-> [conn[c] EXCEPT !.created = earlier(@)]]
    /\ tickDue' = IF tickDue < MaxPendingTicks THEN tickDue + 1 ELSE tickDue
    /\ UNCHANGED <<sourceVars, now, lock, tickTodo, tickKey, tickSkipped, mainPc, sigs, mainNotified,
                   nCmds, chanVars, threadVars, tierUp, writers, lastSend, protoVars>>

\* one connection, one key, the 1 Hz tick and the clock, for as long as the
\* server runs
NextForever ==
    \/ Accept("c1")
    \/ RecvGet("c1", "k1")
    \/ Acquire("c1")
    \/ \E o \in Outcomes : CallReturn("c1", o)
    \/ Respond("c1")
    \/ MainTick
    \/ MainTickAcquire
    \/ \E k \in Keys : MainTickVisit(k)
    \/ \E o \in Outcomes : MainTickReturn(o)
    \/ MainTickDone
    \/ Advance
    \/ AdvancePast

\* the runtime keeps polling its tasks, the interval keeps firing, the source
\* answers every call
ForeverSpec ==
    /\ Init
    /\ [][NextForever]_vars
    /\ WF_vars(Advance \/ AdvancePast)
    /\ WF_vars(MainTick \/ MainTickAcquire \/ MainTickDone
               \/ \E k \in Keys : MainTickVisit(k))
    /\ WF_vars(\E o \in Outcomes : MainTickReturn(o))
    /\ WF_vars(Acquire("c1") \/ Respond("c1") \/ \E o \in Outcomes : CallReturn("c1", o))

\* one connection, one key whose source answers "a" to the first fetch and
\* nothing to the refreshes, the tick, the clock and the two signal
\* listeners, up to the Writer's shutdown at the end of run
NextShutdown ==
    \/ Accept("c1")
    \/ RecvGet("c1", "k1")
    \/ Acquire("c1")
    \/ CallReturn("c1", "a")
    \/ Respond("c1")
    \/ ConnBreak("c1")
    \/ MainTick
    \/ MainTickAcquire
    \/ \E k \in Keys : MainTickVisit(k)
    \/ MainTickReturn(None)
    \/ MainTickDone
    \/ \E s \in Signals : Signal(s)
    \/ MainBreak
    \/ MainShutdownWriter
    \/ Advance
    \/ AdvancePast

\* the runtime keeps polling the run loop and the connection task, the source
\* answers, time passes; clients and signals come as they please
ShutdownSpec ==
    /\ Init
    /\ [][NextShutdown]_vars
    /\ WF_vars(Advance \/ AdvancePast)
    /\ WF_vars(MainTick \/ MainTickAcquire \/ MainTickDone \/ MainBreak
               \/ MainShutdownWriter \/ MainTickReturn(None)
               \/ \E k \in Keys : MainTickVisit(k))
    /\ WF_vars(Acquire("c1") \/ Respond("c1") \/ ConnBreak("c1") \/ CallReturn("c1", "a"))

\* ------------------------------------------- the tower Service (service.rs)
\* Service::new().getter(..).target(addr): no run loop, no tick, no Writer yet;
\* the callers of Service::call are idle
InitService ==
    /\ now = 0
    /\ tickDue = 0
    /\ lock = "free"
    /\ tasks = [k \in Keys |-> NoTask]
    /\ conn = [c \in Conns |-> [ClosedConn EXCEPT !.pc = "select"]]
    /\ mainPc = "service"
    /\ tickTodo = {}
    /\ tickKey = "-"
    /\ tickSkipped = {}
    /\ sigs = {}
    /\ mainNotified = FALSE
    /\ nCmds = 0
    /\ jobs = <<>>
    /\ nSent = 0
    /\ shutdownTok = 0
    /\ wpc = "loop"
    /\ wOwner = "held"
    /\ tierUp = TRUE
    /\ writers = 0
    /\ lastSend = "none"
    /\ client = "ok"
    /\ warm = [k \in Keys |-> None]
    /\ lastSeq = 0
    /\ lastAttempt = 0
    /\ sentAtShutdown = 0
    /\ NoProtocol
    /\ NoSourceCall

\* Service::call -> Service::handle_command(Get([k])): a Writer is built for
\* the target (Writer::new spawns its thread), then get_or_create_monitor_task
\* awaits the lock
SvcCall(c, k) ==
    /\ mainPc = "service"
    /\ conn[c].pc = "select"
    /\ nCmds < MaxCmds
    /\ nCmds' = nCmds + 1
    /\ writers' = writers + 1
    /\ conn' = [conn EXCEPT ![c] = [pc |-> "lockwait", key |-> k, created |-> 0,
                                    ret |-> NoRet, notified |-> FALSE]]
    /\ UNCHANGED <<sourceVars, clockVars, engineVars, mainPc, sigs, mainNotified, chanVars, threadVars,
                   tierUp, lastSend, protoVars>>

\* what Service::call returns for Get([k]) once get_or_create_monitor_task has
\* returned `ret`: handle_command returns Err on a miss (`Err(e) => return
\* Err(e.into())`), which call turns into Response::Error
service_get(ret) ==
    IF ret.value = None
    THEN Resp("Error", <<>>)
    ELSE Resp("Values", <<Item(ret.key, ret.value)>>)

\* commands handled by the Service; its get_or_create_monitor_task is the
\* Server's. `jobs` lists the jobs sent to the Writers of the target, in the
\* order of the sends; no Writer thread is scheduled here.
NextService ==
    \/ \E c \in Conns, k \in Keys : SvcCall(c, k)
    \/ \E c \in Conns : Acquire(c)
    \/ \E c \in Conns, o \in Outcomes : CallReturn(c, o)
    \/ \E c \in Conns : Respond(c)

ServiceSpec == InitService /\ [][NextService]_vars

\* ------------------------------------------- one connection, frame by frame

\* Server::run with connection p accepted: the task is in its select!
InitProto ==
    /\ now = 0
    /\ tickDue = 1
    /\ lock = "free"
    /\ tasks = [k \in Keys |-> NoTask]
    /\ conn = [c \in Conns |-> ClosedConn]
    /\ mainPc = "select"
    /\ tickTodo = {}
    /\ tickKey = "-"
    /\ tickSkipped = {}
    /\ sigs = {}
    /\ mainNotified = FALSE
    /\ nCmds = 0
    /\ jobs = <<>>
    /\ nSent = 0
    /\ shutdownTok = 0
    /\ wpc = "loop"
    /\ wOwner = "held"
    /\ tierUp = TRUE
    /\ writers = 1
    /\ lastSend = "none"
    /\ client = "ok"
    /\ warm = [k \in Keys |-> None]
    /\ lastSeq = 0
    /\ lastAttempt = 0
    /\ sentAtShutdown = 0
    /\ getter \in {"some", "none"}
    /\ overflow_checks \in BOOLEAN
    /\ sent = <<>>
    /\ consumed = 0
    /\ ppc = "recv"
    /\ ctx = NoCtx
    /\ items = NoItems
    /\ wire = <<>>
    /\ NoSourceCall

\* the client writes a request frame to the socket
ClientWrite(f) ==
    /\ ppc \in {"recv", "handle"}
    /\ Len(sent) < MaxFrames
    /\ IF sent = <<>> THEN TRUE ELSE sent[Len(sent)] /= Eof
    /\ sent' = Append(sent, f)
    /\ UNCHANGED <<sourceVars, clockVars, engineVars, serverVars, chanVars, threadVars, tierUp, writers,
                   lastSend, getter, overflow_checks, consumed, ppc, ctx, items, wire>>

\* the client closes its side of the socket: nothing is written after that
ClientClose == ClientWrite(Eof)

\* what one write_all puts on the socket (for, parsed: the frame it answers
\* and whether recv_command had returned Ok for it)
Chunk(id, parsed, protocol, r) ==
    [for |-> id, parsed |-> parsed, protocol |-> protocol, kind |-> r.kind,
     units |-> serialize(r, protocol)]

\* fault variant of write_all: the bytes are put before those written earlier
write_first(w, chunk) == <<chunk>> \o w

\* writer.write_all(&response_data)
write_all(w, chunk) == Append(w, chunk)

\* fault variant of keys_of: Touch goes through get_or_create_monitor_task too
keys_of_touching(command) ==
    IF getter = "some" /\ command.op \in {"Get", "Gets", "MetaGet", "Touch"}
    THEN command.keys ELSE <<>>

\* the keys handle_command gets one by one for a command
keys_of(command) ==
    IF getter = "some" /\ command.op \in {"Get", "Gets", "MetaGet"}
    THEN command.keys ELSE <<>>

\* one pass of the connection loop up to handle_command: recv_command on the
\* buffered bytes (fill_buf returns what the buffer holds and reads the socket
\* only when it is empty), then the arms of `match data` but the first
PRecv ==
    LET id == consumed + 1
        r == recv_command(sent[id])
    IN  /\ ppc = "recv"
        /\ consumed < Len(sent)
        /\ consumed' = IF r.eaten THEN id ELSE consumed
        /\ CASE r.res = "Ok" ->
                  /\ ctx' = [command |-> r.command, protocol |-> r.protocol, id |-> id]
                  /\ items' = [todo |-> keys_of(r.command), got |-> <<>>]
                  /\ ppc' = "handle"
                  /\ UNCHANGED wire
             [] r.res = "NoCommand" ->
                  UNCHANGED <<sourceVars, ctx, items, ppc, wire>>
             [] r.res = "Err" ->
                  /\ Len(wire) < MaxWire
                  /\ wire' = write_all(wire, Chunk(id, FALSE, Text, Resp("Error", <<>>)))
                  /\ UNCHANGED <<sourceVars, ctx, items, ppc>>
             [] r.res = "Panic" ->
                  /\ ppc' = "panicked"
                  /\ UNCHANGED <<sourceVars, ctx, items, wire>>
        /\ UNCHANGED <<sourceVars, clockVars, engineVars, serverVars, chanVars, threadVars, tierUp, writers,
                       lastSend, getter, overflow_checks, sent>>

\* items.push(item)
push(its, item) == Append(its, item)

\* handle_command's loop over the keys: get_or_create_monitor_task for the next
\* key (no other task contends for the lock), the getter returning `o` when it
\* is called; an item is pushed for Ok, nothing for Err
PGetKey(o) ==
    LET k == Head(items.todo)
        old == tasks[k]
        cached == old.present /\ old.last_result /= None
        mt == get_task(touch(NewTask(now, TRUE), now), o, now, FALSE)
        value == IF cached THEN old.last_result ELSE o
    IN  /\ ppc = "handle"
        /\ items.todo /= <<>>
        /\ IF cached
           THEN /\ tasks' = [tasks EXCEPT ![k] = touch(old, now)]
                /\ UNCHANGED <<sourceVars, jobs, nSent, lastSend>>
           ELSE /\ tasks' = [tasks EXCEPT ![k] = mt]
                /\ get_chan(mt, k, o)
        /\ items' = [todo |-> Tail(items.todo),
                     got |-> IF value /= None THEN push(items.got, Item(k, value))
                             ELSE items.got]
        /\ UNCHANGED <<sourceVars, clockVars, lock, tickTodo, tickKey, tickSkipped, serverVars,
                       shutdownTok, wOwner, sentAtShutdown, threadVars, tierUp, writers,
                       getter, overflow_checks, sent, consumed, ppc, ctx, wire>>

\* handle_command(Gat | Gats): an item with the data b"sample_value" for every
\* key; get_or_create_monitor_task is not called
sample_items(keys) == [i \in 1..Len(keys) |-> Item(keys[i], "sample_value")]

\* fault variant of handle_command: Quit is answered like any other command
\* (an Error response) and the loop goes on
handle_command_quit_answered(command, got) ==
    IF getter = "none" \/ command.op = "Quit" THEN Resp("Error", <<>>)
    ELSE CASE command.op \in {"Get", "Gets"} -> Resp("Values", got)
           [] command.op = "MetaGet" ->
                 IF got /= <<>> THEN Resp("MetaValue", got) ELSE Resp("MetaEnd", <<>>)
           [] command.op \in {"Gat", "Gats"} -> Resp("Values", sample_items(command.keys))
           [] command.op = "MetaNoOp" -> Resp("MetaNoOp", <<>>)
           [] command.op = "Version" -> Resp("Version", <<>>)
           [] command.op = "Stats" -> Resp("Stats", <<>>)
           [] command.op = "Touch" -> Resp("Touched", <<>>)

\* fault variant of handle_command: a Get that found no value is answered with
\* an Error response
handle_command_miss_is_error(command, got) ==
    IF getter = "none" \/ (command.op \in {"Get", "Gets", "MetaGet"} /\ got = <<>>)
    THEN Resp("Error", <<>>)
    ELSE CASE command.op \in {"Get", "Gets"} -> Resp("Values", got)
           [] command.op = "MetaGet" -> Resp("MetaValue", got)
           [] command.op \in {"Gat", "Gats"} -> Resp("Values", sample_items(command.keys))
           [] command.op = "MetaNoOp" -> Resp("MetaNoOp", <<>>)
           [] command.op = "Version" -> Resp("Version", <<>>)
           [] command.op = "Stats" -> Resp("Stats", <<>>)
           [] command.op = "Touch" -> Resp("Touched", <<>>)
           [] command.op = "Quit" -> Resp("None", <<>>)

\* what handle_command returns for the command (Quit: Ok(None))
handle_command(command, got) ==
    IF getter = "none" THEN Resp("Error", <<>>)
    ELSE CASE command.op \in {"Get", "Gets"} -> Resp("Values", got)
           [] command.op = "MetaGet" ->
                 IF got /= <<>> THEN Resp("MetaValue", got) ELSE Resp("MetaEnd", <<>>)
           [] command.op \in {"Gat", "Gats"} -> Resp("Values", sample_items(command.keys))
           [] command.op = "MetaNoOp" -> Resp("MetaNoOp", <<>>)
           [] command.op = "Version" -> Resp("Version", <<>>)
           [] command.op = "Stats" -> Resp("Stats", <<>>)
           [] command.op = "Touch" -> Resp("Touched", <<>>)
           [] command.op = "Quit" -> Resp("None", <<>>)

\* handle_command returns: the response is serialized in the protocol of the
\* CommandContext and written, or the loop breaks on Ok(None)
PWrite ==
    LET r == handle_command(ctx.command, items.got)
    IN  /\ ppc = "handle"
        /\ items.todo = <<>>
        /\ IF r.kind = "None"
           THEN /\ ppc' = "done"
                /\ UNCHANGED wire
           ELSE /\ wire' = write_all(wire, Chunk(ctx.id, TRUE, ctx.protocol, r))
                /\ ppc' = "recv"
        /\ ctx' = NoCtx
        /\ items' = NoItems
        /\ UNCHANGED <<sourceVars, clockVars, engineVars, serverVars, chanVars, threadVars, tierUp, writers,
                       lastSend, getter, overflow_checks, sent, consumed>>

NextProto ==
    \/ \E f \in Frames : ClientWrite(f)
    \/ ClientClose
    \/ PRecv
    \/ \E o \in Outcomes : PGetKey(o)
    \/ PWrite

ProtoSpec == InitProto /\ [][NextProto]_vars


\* ------------------------------------------------ routing a key to a source
\* ^a$, ^(?<x>[^/]+)$, ^(?<x>[^/]+)/b$, ^(?<x>[^/]+)/(?<y>[^/]+)?$ and ^.*$
Patterns ==
    {<<Lit("a")>>,
     <<Group(<<"x">>)>>,
     <<Group(<<"x">>), Lit("/"), Lit("b")>>,
     <<Group(<<"x">>), Lit("/"), Opt(<<"y">>)>>,
     <<Rest>>}

\* the keys asked for: a, a/b, a/, {x} and x
RequestKeys == {<<"a">>, <<"a", "/", "b">>, <<"a", "/">>, <<"{", "x", "}">>, <<"x">>}

\* the templates of an Echo: {x}, {$key}, a{y}b, {{y}} and {y}/{$key}
Templates == {<<"{", "x", "}">>, <<"{">> \o DollarKey \o <<"}">>,
              <<"a", "{", "y", "}", "b">>, <<"{", "{", "y", "}", "}">>,
              <<"{", "y", "}", "/", "{">> \o DollarKey \o <<"}">>}

\* the durations a source is configured with, in seconds
Durations == {3, 5}

\* Router::route(pattern, source); it takes the Router by value, so no result
\* of Router::rule is alive
Route(re, src) ==
    /\ Len(router) < MaxRules
    /\ router' = Append(router, [re |-> re, source |-> src])
    /\ routed' = NoRouted
    /\ UNCHANGED <<clockVars, engineVars, serverVars, chanVars, threadVars, tierUp, writers,
                   lastSend, protoVars, request, source, response>>

\* Router::rule(key); the caller keeps the request of the match
RuleCall(key) ==
    /\ routed' = rule(router, key)
    /\ request' = routed'.request
    /\ UNCHANGED <<clockVars, engineVars, serverVars, chanVars, threadVars, tierUp, writers,
                   lastSend, protoVars, router, source, response>>

\* Request::new(key)
RequestNew(key) ==
    /\ ~response.called
    /\ request' = Request_new(key)
    /\ UNCHANGED <<clockVars, engineVars, serverVars, chanVars, threadVars, tierUp, writers,
                   lastSend, protoVars, router, routed, source, response>>

NextRouter ==
    \/ \E re \in Patterns, src \in {Echo_new, FnGetter_new(Func(<<"v">>))} : Route(re, src)
    \/ \E key \in RequestKeys : RuleCall(key)
    \/ \E key \in RequestKeys : RequestNew(key)

RouterSpec == Init /\ [][NextRouter]_vars

\* ------------------------------------------------------- calling one source
\* the Sources map of the server: closures with and without a value, one whose
\* value is a JSON object, and an Echo of {x}
TestSources ==
    [n \in {"echo1", "empty", "json", "tmpl"} |->
        CASE n = "echo1" -> FnGetter_new(Func(<<"v">>))
          [] n = "empty" -> FnGetter_new(NoFunc)
          [] n = "json" -> FnGetter_new(Func(<<"{", "}">>))
          [] n = "tmpl" -> [Echo_new EXCEPT !.template = <<"{", "x", "}">>]]

\* the rules a Merge is configured with
MergeRules ==
    {MergeRule(<<"a">>, "echo1", Inherit),
     MergeRule(<<"a", "b">>, "echo1", Inherit),
     MergeRule(<<"b">>, "empty", Inherit),
     MergeRule(<<"b">>, "nonexistent", Inherit),
     MergeRule(<<"a">>, "json", Inherit),
     MergeRule(<<"b">>, "tmpl", Replace(insert(NoMap, <<"x">>, <<"{">> \o DollarKey \o <<"}">>))),
     MergeRule(<<>>, "echo1", Inherit)}

\* Rule::match_key(key) of a rule with this pattern, when it matches
MatchKey(re, key) ==
    /\ ~response.called
    /\ match_regex(re, key).some
    /\ request' = match_regex(re, key)
    /\ UNCHANGED <<clockVars, engineVars, serverVars, chanVars, threadVars, tierUp, writers,
                   lastSend, protoVars, router, routed, source, response>>

\* Request::with_sources(sources)
WithSources ==
    /\ ~response.called
    /\ request.some
    /\ request' = [request EXCEPT !.sources = Handle(TestSources)]
    /\ UNCHANGED <<clockVars, engineVars, serverVars, chanVars, threadVars, tierUp, writers,
                   lastSend, protoVars, router, routed, source, response>>

\* Echo::new(), Merge::new()
SourceNew(s) ==
    /\ ~response.called
    /\ source = NoSource
    /\ source' = s
    /\ UNCHANGED <<clockVars, engineVars, serverVars, chanVars, threadVars, tierUp, writers,
                   lastSend, protoVars, router, routed, request, response>>

\* Echo::with_template(template)
WithTemplate(template) ==
    /\ ~response.called
    /\ source.kind = "Echo"
    /\ source' = [source EXCEPT !.template = template]
    /\ UNCHANGED <<clockVars, engineVars, serverVars, chanVars, threadVars, tierUp, writers,
                   lastSend, protoVars, router, routed, request, response>>

\* MonitorConfig::with_ttl(ttl) through DerefMut, Merge::with_ttl(ttl)
WithTtl(ttl) ==
    /\ ~response.called
    /\ source.kind \in {"Echo", "Merge"}
    /\ source' = [source EXCEPT !.ttl = ttl]
    /\ UNCHANGED <<clockVars, engineVars, serverVars, chanVars, threadVars, tierUp, writers,
                   lastSend, protoVars, router, routed, request, response>>

\* MonitorConfig::with_expiry(expiry) through DerefMut, Merge::with_expiry(expiry)
WithExpiry(expiry) ==
    /\ ~response.called
    /\ source.kind \in {"Echo", "Merge"}
    /\ source' = [source EXCEPT !.expiry = expiry]
    /\ UNCHANGED <<clockVars, engineVars, serverVars, chanVars, threadVars, tierUp, writers,
                   lastSend, protoVars, router, routed, request, response>>

\* Merge::with_rule(key, source, args)
WithRule(r) ==
    /\ ~response.called
    /\ source.kind = "Merge"
    /\ Len(source.rules) < MaxMergeRules
    /\ source' = [source EXCEPT !.rules = Append(@, r)]
    /\ UNCHANGED <<clockVars, engineVars, serverVars, chanVars, threadVars, tierUp, writers,
                   lastSend, protoVars, router, routed, request, response>>

\* Source::call(request) on the source that was built
Call ==
    /\ ~response.called
    /\ source /= NoSource
    /\ request.some
    /\ response' = IF source.kind = "Echo" THEN Echo_call(source, request)
                   ELSE Merge_call(source, request)
    /\ UNCHANGED <<clockVars, engineVars, serverVars, chanVars, threadVars, tierUp, writers,
                   lastSend, protoVars, router, routed, request, source>>

NextSource ==
    \/ \E key \in RequestKeys : RequestNew(key)
    \/ \E re \in Patterns, key \in RequestKeys : MatchKey(re, key)
    \/ WithSources
    \/ \E s \in {Echo_new, Merge_new} : SourceNew(s)
    \/ \E template \in Templates : WithTemplate(template)
    \/ \E ttl \in Durations : WithTtl(ttl)
    \/ \E expiry \in Durations : WithExpiry(expiry)
    \/ \E r \in MergeRules : WithRule(r)
    \/ Call

SourceSpec == Init /\ [][NextSource]_vars


\* =================================================================== claims
\* the parties running the getter for key k: connections inside
\* get_or_create_task and the tick inside MonitorTask::tick
InFlight(k) ==
    {c \in Conns : conn[c].pc = "calling" /\ conn[c].key = k}
    \cup (IF mainPc = "tick_calling" /\ tickKey = k THEN {"main"} ELSE {})

\* C1: under any interleaving of gets from concurrent connections and the
\* periodic tick, at most one getter call for a given key is executing at any
\* moment.
C1_AtMostOneInFlight == \A k \in Keys : Cardinality(InFlight(k)) <= 1

\* a getter call for a key is running while another connection and the tick
\* both wait for the lock, the connection for the same key
C1_Witness ==
    \E c, d \in Conns :
        /\ c /= d
        /\ conn[c].pc = "calling"
        /\ conn[d].pc = "lockwait"
        /\ conn[d].key = conn[c].key
        /\ mainPc = "tick_lockwait"

\* C2: for a live, non-expired task the value get_or_create returns at time
\* t was produced by a getter call at an instant u with t - u <= ttl, and
\* t - u <= ttl/2 once a background refresh has happened. The step checked is
\* the return of a cached value by get_or_create_task.
C2_RefreshBound ==
    [][\A c \in Conns :
          (/\ conn[c].pc = "lockwait"
           /\ conn'[c].pc = "respond"
           /\ now <= tasks[conn[c].key].until)
          => LET task == tasks[conn[c].key]
                 age == now - task.updated_at
             IN  /\ age <= TTL
                 /\ task.refreshed => 2 * age <= TTL]_vars

\* the weighted cache of the design: the weight of a task approximates its
\* footprint, len(key) + captures + len(value if present) + fixed overhead
\* (requests of this server carry no captures)
FixedOverhead == 1

weight(k, task) ==
    Len(k) + (IF task.last_result /= None THEN Len(task.last_result) ELSE 0)
    + FixedOverhead

\* the configured byte budget: room for one task with its value
MaxBytes == 5

RECURSIVE TableWeight(_)
TableWeight(ks) ==
    IF ks = {} THEN 0
    ELSE LET k == CHOOSE x \in ks : TRUE
         IN  (IF tasks[k].present THEN weight(k, tasks[k]) ELSE 0)
             + TableWeight(ks \ {k})

\* C3: after any sequence of get_or_create calls, for any number of distinct
\* keys, the sum of the weights of the tasks in the table is at most the
\* configured byte budget.
C3_EvictionRespectsBudget == TableWeight(Keys) <= MaxBytes

\* C4: a task that has expired (its window has elapsed without a touch) is
\* eventually removed from the task table by the engine.
C4_ExpiredEventuallyRemoved ==
    \A k \in Keys :
        (tasks[k].present /\ now > tasks[k].until) ~> ~tasks[k].present

\* C5: once a task's window has passed the tick makes no getter call for its
\* key: the tick's visit of an expired task calls nothing, enqueues nothing
\* and changes no task, and no step of the tick moves a task's `until`.
C5_NoRefreshAfterExpiry ==
    [][/\ \A k \in Keys :
            (mainPc = "tick_iter" /\ k \in tickTodo /\ k \notin tickTodo'
             /\ now > tasks[k].until)
            => (mainPc' = "tick_iter" /\ jobs' = jobs /\ tasks' = tasks)
       /\ \A k \in Keys :
            (mainPc = "tick_iter" /\ mainPc' = "tick_calling" /\ tickKey' = k)
            => now <= tasks[k].until
       /\ (mainPc' /= mainPc \/ tickTodo' /= tickTodo)
            => \A k \in Keys : tasks'[k].until = tasks[k].until]_vars

\* the tick has just passed over a task whose window has lapsed and whose
\* value is older than the refresh interval
C5_Witness ==
    /\ mainPc = "tick_iter"
    /\ "k1" \in tickSkipped
    /\ now > tasks["k1"].until
    /\ now > tasks["k1"].updated_at + Interval
    /\ tasks["k1"].last_result /= None

\* C6: every getter call (first fetch or tick refresh) that returns a value
\* on a task with a writer attached enqueues exactly one job with that key,
\* that value and the task's ttl; a call that returns no value enqueues none.
C6_OneJobPerValue ==
    [][/\ \A c \in Conns, o \in Outcomes :
            CallReturn(c, o)
            => jobs' = IF o /= None
                       THEN Append(jobs, [key |-> conn[c].key, value |-> o,
                                          ttl_secs |-> TTL, seq |-> nSent + 1])
                       ELSE jobs
       /\ \A o \in Outcomes :
            MainTickReturn(o)
            => jobs' = IF o /= None
                       THEN Append(jobs, [key |-> tickKey, value |-> o,
                                          ttl_secs |-> TTL, seq |-> nSent + 1])
                       ELSE jobs]_vars

\* a first fetch and a tick refresh both returned a value: two jobs are queued,
\* the second with the refreshed value
C6_Witness ==
    /\ Len(jobs) = 2
    /\ tasks["k1"].refreshed
    /\ jobs[2].key = "k1"
    /\ jobs[2].value = tasks["k1"].last_result
    /\ jobs[1].value /= jobs[2].value

\* C7: after a GET for a key yields a value (the response is about to be
\* written), the warm tier eventually holds that key with that value, the
\* writer thread being scheduled and the warm tier reachable.
C7_WarmTierEventuallyHolds ==
    \A k \in Keys, v \in Values :
        (\E c \in Conns :
            conn[c].pc = "respond" /\ conn[c].ret = [key |-> k, value |-> v])
        ~> (warm[k] = v)

\* a GET has its value while the job for it is still in the channel
C7_Witness ==
    \E c \in Conns :
        /\ conn[c].pc = "respond"
        /\ conn[c].ret.value /= None
        /\ warm[conn[c].ret.key] /= conn[c].ret.value
        /\ \E i \in 1..Len(jobs) :
              jobs[i].key = conn[c].ret.key /\ jobs[i].value = conn[c].ret.value

\* C8: the writer thread processes jobs in exactly the order they were sent,
\* the jobs it drains after the shutdown token included: the channel always
\* holds, in order, the jobs that follow the last one processed.
C8_Fifo == \A i \in 1..Len(jobs) : jobs[i].seq = lastSeq + i

\* the thread is draining after the token: two jobs are processed, one remains
C8_Witness ==
    /\ wpc = "drain"
    /\ lastSeq = 2
    /\ Len(jobs) = 1
    /\ sentAtShutdown = 3

\* C9: every job enqueued before Writer::shutdown is called is handed to
\* process before the writer thread exits, and shutdown returns only after
\* the thread has exited.
C9_ShutdownDrains ==
    /\ wpc = "exited"
       => /\ lastSeq >= sentAtShutdown
          /\ \A i \in 1..Len(jobs) : jobs[i].seq > sentAtShutdown
    /\ wOwner = "joined" => wpc = "exited"

\* shutdown has returned after three jobs were sent and all were processed
C9_Witness ==
    /\ wOwner = "joined"
    /\ sentAtShutdown = 3
    /\ lastSeq = 3

\* C10: when the run loop ends on shutdown the server holds sole ownership
\* of the Writer, and it has shut the Writer down (signal, drain, join) when
\* run returns, whatever monitor tasks or connection tasks still exist.
C10_WriterShutDownOnExit ==
    /\ mainPc = "stopping" => StrongCount = 1
    /\ mainPc = "returned" => (wOwner = "joined" /\ wpc = "exited")

\* C11: every job the writer thread takes from the channel is tried against
\* the warm tier at least once (set for a value, delete for none) before it
\* is discarded, also when the client is disconnected at that moment.
C11_AtLeastOnce == lastAttempt = lastSeq

\* C12: for one warm-tier target there is exactly one Writer thread, however
\* many commands and connections are handled.
C12_OneWriterThread == nCmds > 0 => writers = 1

\* C13: once Writer::shutdown has returned, a send on a surviving clone of
\* the job sender fails with an error, and that job is never processed:
\* nothing is queued and nothing is handed to process any more.
C13_SendAfterShutdownFails ==
    [][wOwner = "joined"
       => /\ \A k \in Keys, v \in Outcomes :
                WSendClone(k, v) => (lastSend' = "err" /\ jobs' = jobs)
          /\ jobs' = jobs
          /\ lastSeq' = lastSeq]_vars

\* shutdown has returned and a send on a clone of the sender has failed
C13_Witness ==
    /\ wOwner = "joined"
    /\ lastSend = "err"

\* C14: once a shutdown signal has triggered the notifier, the accept/tick
\* loop of run and every connection task eventually leave their loops,
\* whether they were parked in select! or inside a branch body at that
\* instant (a connection task still looping when run has returned is left
\* to the runtime, which drops it with the process).
C14_ShutdownReachesAll ==
    (sigs /= {})
    ~> (/\ mainPc \in {"stopping", "joining", "returned"}
        /\ \/ mainPc = "returned"
           \/ \A c \in Conns : conn[c].pc \in {"closed", "done"})

\* the position of x in a sequence that holds it
Pos(seq, x) == CHOOSE i \in 1..Len(seq) : seq[i] = x

\* the VALUE lines of a written text response
ValueLines(chunk) == SelectSeq(chunk.units, LAMBDA u : u.text /= <<>> /\ u.text[1] = "VALUE")

\* C15: within one connection the responses are written in the order in which
\* their commands were parsed, and the items of a multi-key GET are written in
\* the order of the keys of the request.
C15_ResponsesInOrder ==
    /\ \A i, j \in 1..Len(wire) :
          (i < j /\ wire[i].parsed /\ wire[j].parsed) => wire[i].for < wire[j].for
    /\ \A i \in 1..Len(wire) :
          (wire[i].parsed /\ wire[i].kind = "Values" /\ wire[i].protocol.type = "Text")
          => LET req == Tail(sent[wire[i].for].toks)
                 vals == ValueLines(wire[i])
             IN  \A a, b \in 1..Len(vals) :
                    a < b => Pos(req, vals[a].text[2]) < Pos(req, vals[b].text[2])

\* two commands were answered, one of them a GET of two keys that both hit
C15_Witness ==
    /\ Len(wire) = 2
    /\ wire[1].parsed /\ wire[2].parsed
    /\ \E i \in 1..2 : wire[i].kind = "Values" /\ Len(ValueLines(wire[i])) = 2

\* C16: every response written for a successfully parsed command has the
\* framing of the protocol of that command's CommandContext: binary packets
\* (magic 0x81) for a binary request, lines of text for a text or meta one.
C16_DialectPreserved ==
    \A i \in 1..Len(wire) :
       wire[i].parsed
       => \A n \in 1..Len(wire[i].units) :
             IF wire[i].protocol.type = "Binary"
             THEN wire[i].units[n].t = "pkt" /\ wire[i].units[n].magic = MAGIC_RESPONSE
             ELSE wire[i].units[n].t = "line"

\* a binary request and a text or meta request were both answered with bytes
C16_Witness ==
    /\ \E i \in 1..Len(wire) :
          wire[i].parsed /\ wire[i].protocol.type = "Binary" /\ wire[i].units /= <<>>
    /\ \E i \in 1..Len(wire) :
          wire[i].parsed /\ wire[i].protocol.type /= "Binary" /\ wire[i].units /= <<>>

\* C17: every packet written in answer to a binary request carries the opaque
\* of that request in its header, whatever the kind of the response.
C17_OpaqueEchoed ==
    \A i \in 1..Len(wire) :
       (wire[i].parsed /\ wire[i].protocol.type = "Binary")
       => \A n \in 1..Len(wire[i].units) :
             wire[i].units[n].opaque = wire[i].protocol.opaque

\* the opcodes parse_binary knows
KnownOpcodes ==
    {OPCODE_GET, OPCODE_GETK, OPCODE_VERSION, OPCODE_QUIT, OPCODE_STAT, OPCODE_DELETE}

\* C18: what is written in answer to a binary request with an opcode outside
\* GET, GETK, VERSION, QUIT, STAT, DELETE is one binary packet (magic 0x81)
\* with status UNKNOWN_COMMAND (0x0081).
C18_UnknownOpcodeBinaryError ==
    \A i \in 1..Len(wire) :
       LET f == sent[wire[i].for]
       IN  (f.d = "bin" /\ f.magic = MAGIC_REQUEST /\ f.opcode \notin KnownOpcodes)
           => /\ Len(wire[i].units) = 1
              /\ wire[i].units[1].t = "pkt"
              /\ wire[i].units[1].magic = MAGIC_RESPONSE
              /\ wire[i].units[1].status = STATUS_UNKNOWN_COMMAND

\* C19: the connection task never panics while parsing: parse_binary returns a
\* command or an error for every packet of at least 24 bytes that starts with
\* 0x80, also when total_body_length < extras_length + key_length.
C19_ParseNeverPanics == ppc /= "panicked"

\* C20: a malformed request frame is answered with exactly one error response
\* (and the connection goes on to the next frame): no frame has two error
\* responses written for it.
C20_OneErrorPerBadFrame ==
    \A i, j \in 1..Len(wire) :
       (~wire[i].parsed /\ ~wire[j].parsed /\ wire[i].for = wire[j].for) => i = j

C23_OneItemPerHit ==
    \A c \in Conns :
       (mainPc = "service" /\ conn[c].pc = "respond")
       => service_get(conn[c].ret)
          = Resp("Values", IF conn[c].ret.value = None THEN <<>>
                           ELSE <<Item(conn[c].ret.key, conn[c].ret.value)>>)

\* C24: Gat and Gats obtain the value of each key through get_or_create, as
\* Get does: once a gat is answered, every key it names has a task in the
\* table, and every VALUE line written for it carries the value that task
\* holds.
C24_GatUsesEngine ==
    \A i \in 1..Len(wire) :
       LET f == sent[wire[i].for]
       IN  (/\ wire[i].parsed /\ wire[i].kind = "Values"
            /\ f.d = "line" /\ f.toks[1] \in {"gat", "gats"})
           => /\ \A n \in 3..Len(f.toks) : tasks[f.toks[n]].present
              /\ \A n \in 1..Len(ValueLines(wire[i])) :
                    LET line == ValueLines(wire[i])[n].text
                    IN  line[3] = tasks[line[2]].last_result

C26_RouterFirstMatch ==
    routed.called =>
        LET matching == {i \in 1..Len(router) : re_captures(router[i].re, routed.key).ok}
        IN  IF matching = {}
            THEN routed.idx = 0 /\ routed.request = NoRequest
            ELSE /\ routed.idx \in matching
                 /\ \A j \in matching : routed.idx <= j
                 /\ routed.request = match_regex(router[routed.idx].re, routed.key)

\* two different rules match the key and the first one was returned
C26_Witness ==
    /\ routed.called
    /\ routed.idx = 1
    /\ Len(router) = 2
    /\ router[1].re /= router[2].re
    /\ re_captures(router[2].re, routed.key).ok

\* C27: every Request, built by Request::new or by Request::match_regex, has
\* a capture map with the reserved entry $key mapped to the request's key.
C27_DollarKeyAlways ==
    request.some =>
        /\ DollarKey \in DOMAIN request.captures
        /\ request.captures[DollarKey] = request.key

\* C28: every response that carries a value has ttl > 0 and expiry >= ttl.
C28_ValueHasValidTtl ==
    (response.called /\ response.has_value) =>
        (response.ttl > 0 /\ response.expiry >= response.ttl)

\* C29: for every template with balanced braces and every capture map, also
\* one whose values contain braces, the output of replace_placeholders holds
\* no {name} placeholder whose name is a key of the capture map.
C29_NoPlaceholderLeft ==
    LET count(text, n, c) == Cardinality({i \in 1..n : text[i] = c})
        balanced(text) ==
            /\ \A n \in 1..Len(text) : count(text, n, "{") >= count(text, n, "}")
            /\ count(text, Len(text), "{") = count(text, Len(text), "}")
        has_placeholder(text, names) ==
            \E i, j \in 1..Len(text) :
                /\ i < j
                /\ text[i] = "{"
                /\ text[j] = "}"
                /\ SubSeq(text, i + 1, j - 1) \in names
    IN  (response.called /\ source.kind = "Echo" /\ balanced(source.template)) =>
            ~has_placeholder(response.value, DOMAIN request.captures)

\* the named source of the rule exists and its call produced a value
contributes(r, req) ==
    /\ r.source \in DOMAIN req.sources.map
    /\ child_call(req.sources.map[r.source], replace_request(r, req)).has_value

\* the JSON object built from these rules, each value placed at its key path
RECURSIVE built_from(_, _, _)
built_from(rules, req, merged) ==
    IF rules = <<>> THEN merged
    ELSE LET r == Head(rules)
             value == child_call(req.sources.map[r.source], replace_request(r, req)).value
         IN  built_from(Tail(rules), req, set_nested_value(merged, r.key, json_value(value)))

\* C30: a Merge call on a request with a sources handle always returns a
\* value, the JSON object built from exactly the rules whose named source
\* exists and whose child call produced a value (an empty object when there
\* are none); on a request without a sources handle it returns no value.
C30_MergeBuildsFromPresentValues ==
    (response.called /\ source.kind = "Merge") =>
        LET used == SelectSeq(source.rules, LAMBDA r : contributes(r, request))
        IN  IF request.sources.some
            THEN /\ response.has_value
                 /\ response.value = to_string(Obj(built_from(used, request, NoMap)))
                 /\ used = <<>> => response.value = <<"{", "}">>
            ELSE ~response.has_value

\* a Merge was called with a sources handle; one of its rules named a missing
\* source or got no value, another one contributed
C30_Witness ==
    /\ response.called
    /\ source.kind = "Merge"
    /\ request.sources.some
    /\ \E i \in 1..Len(source.rules) : ~contributes(source.rules[i], request)
    /\ \E i \in 1..Len(source.rules) : contributes(source.rules[i], request)
    /\ response.has_value

\* C31: no source call is awaited while the task-table lock is held, neither
\* in get_or_create nor in the tick: a GET for one key never waits for the
\* lock while a source call for another key is in flight.
C31_NoCallUnderLock ==
    LET calling == {tasks_key \in Keys :
                       \/ \E c \in Conns : conn[c].pc = "calling" /\ conn[c].key = tasks_key
                       \/ mainPc = "tick_calling" /\ tickKey = tasks_key}
    IN  /\ calling /= {} => lock = "free"
        /\ \A c \in Conns :
               conn[c].pc = "lockwait" => calling \subseteq {conn[c].key}

\* C32: when the tick visits a task that has not expired, the source is
\* called if and only if now is later than updated_at + ttl / 2, ttl being the
\* time-to-live sent downstream with the value.
C32_TickPollsAtHalfTtl ==
    [][\A k \in Keys :
          (/\ mainPc = "tick_iter"
           /\ k \in tickTodo
           /\ tickTodo' = tickTodo \ {k}
           /\ ~(now > tasks[k].until))
          => ((mainPc' = "tick_calling") <=> (now > tasks[k].updated_at + ttl_secs(TTL) \div 2))]_vars

\* C33: get_or_create for a key whose task holds a value restarts the task's
\* liveness window from now and returns the stored value: the source is not
\* called, no writer job is enqueued, and the stored value and its updated_at
\* stay as they were.
C33_CachedGetOnlyTouches ==
    [][\A c \in Conns :
          LET k == conn[c].key
          IN  (/\ conn[c].pc = "lockwait"
               /\ conn'[c].pc /= "lockwait"
               /\ tasks[k].present
               /\ tasks[k].last_result /= None)
              => /\ conn'[c].pc = "respond"
                 /\ conn'[c].ret = [key |-> k, value |-> tasks[k].last_result]
                 /\ tasks' = [tasks EXCEPT ![k].until = now + TTL]
                 /\ tasks'[k].last_result = tasks[k].last_result
                 /\ tasks'[k].updated_at = tasks[k].updated_at
                 /\ jobs' = jobs
                 /\ nSent' = nSent
                 /\ lock' = "free"
                 /\ \A d \in Conns : conn'[d].pc /= "calling"]_vars

\* a second GET has just been answered from the task: the value is older than
\* this instant and the window now ends a full ttl from it
C33_Witness ==
    \E c \in Conns :
        /\ conn[c].pc = "respond"
        /\ conn[c].ret.key = "k1"
        /\ conn[c].ret.value = tasks["k1"].last_result
        /\ conn[c].ret.value /= None
        /\ tasks["k1"].updated_at < now
        /\ tasks["k1"].until = now + TTL
        /\ nCmds >= 2

\* C34: when recv_command finds an empty or whitespace-only line, or an empty
\* read buffer at the end of the client's stream, the connection task writes
\* nothing, handles no command and stays in its read loop.
C34_NoCommandIsSilent ==
    [][LET id == consumed + 1
       IN  (/\ ppc = "recv"
            /\ consumed < Len(sent)
            /\ sent' = sent
            /\ sent[id] \in {Eof, Line(<<>>)})
           => /\ wire' = wire
              /\ ppc' = "recv"
              /\ ctx' = ctx
              /\ items' = items
              /\ consumed' = IF sent[id] = Eof THEN consumed ELSE id]_vars

\* an empty line was read and skipped without a byte written, and the task is
\* reading again at the end of the stream
C34_Witness ==
    /\ Len(sent) = 2
    /\ sent[1] = Line(<<>>)
    /\ sent[2] = Eof
    /\ consumed = 1
    /\ ppc = "recv"
    /\ wire = <<>>

\* C35: for a template of one-level placeholders of which at least one names
\* no capture, the output of replace_placeholders is the template with every
\* such placeholder (braces and name) removed, every placeholder that names a
\* capture replaced by its value, and every character outside placeholders
\* unchanged and in order.
C35_MissingPlaceholderRemoved ==
    LET T == source.template
        caps == request.captures
        count(n, c) == Cardinality({i \in 1..n : T[i] = c})
        depth(n) == count(n, "{") - count(n, "}")
        flat == /\ \A n \in 1..Len(T) : depth(n) \in {0, 1}
                /\ depth(Len(T)) = 0
        name(j) == LET i == CHOOSE o \in 1..j :
                                /\ T[o] = "{"
                                /\ \A m \in (o + 1)..j : T[m] /= "{"
                   IN  SubSeq(T, i + 1, j - 1)
        missing == {j \in 1..Len(T) : T[j] = "}" /\ name(j) \notin DOMAIN caps}
        piece(i) == IF T[i] = "}"
                    THEN IF i \in missing THEN <<>> ELSE caps[name(i)]
                    ELSE IF depth(i) = 0 THEN <<T[i]>> ELSE <<>>
        RECURSIVE expected(_)
        expected(i) == IF i > Len(T) THEN <<>> ELSE piece(i) \o expected(i + 1)
    IN  (response.called /\ source.kind = "Echo" /\ flat /\ missing /= {})
            => (response.has_value /\ response.value = expected(1))

\* {y}/{$key} was called with a capture map that holds $key and no y: what is
\* left is the slash and the key
C35_Witness ==
    /\ response.called
    /\ source.kind = "Echo"
    /\ source.template = <<"{", "y", "}", "/", "{">> \o DollarKey \o <<"}">>
    /\ DollarKey \in DOMAIN request.captures
    /\ <<"y">> \notin DOMAIN request.captures
    /\ response.value = <<"/">> \o request.captures[DollarKey]

\* C36: in a Merge call, right after a rule with a non-empty key_path whose
\* child produced a value is applied, the merged object holds that value at
\* the rule's key_path, whatever earlier rules stored at that path or at a
\* prefix of it.
C36_MergeSetsValueAtPath ==
    LET RECURSIVE holds_at(_, _, _)
        holds_at(map, key_path, value) ==
            /\ key_path[1] \in DOMAIN map
            /\ IF Len(key_path) = 1 THEN map[key_path[1]] = value
               ELSE /\ map[key_path[1]].t = "obj"
                    /\ holds_at(map[key_path[1]].m, Tail(key_path), value)
        sources == request.sources.map
    IN  (response.called /\ source.kind = "Merge" /\ request.sources.some) =>
            \A n \in 1..Len(source.rules) :
                LET r == source.rules[n]
                    child == child_call(sources[r.source], replace_request(r, request))
                IN  (r.key /= <<>> /\ r.source \in DOMAIN sources /\ child.has_value)
                    => holds_at(merged_results(SubSeq(source.rules, 1, n), request, NoMap),
                                r.key, json_value(child.value))

\* C37: a source call that returns no value leaves the stored value and
\* updated_at of the task it ran on as they were: the task a GET has just built
\* keeps no value and the instant of its creation, and a task that holds a
\* value keeps it, with its updated_at, after a refresh that failed.
C37_NoValueChangesNothing ==
    [][/\ MainTickReturn(None)
            => /\ tasks'[tickKey].last_result = tasks[tickKey].last_result
               /\ tasks'[tickKey].updated_at = tasks[tickKey].updated_at
               /\ tasks' = tasks
       /\ \A c \in Conns :
            CallReturn(c, None)
            => /\ tasks'[conn[c].key].last_result = None
               /\ tasks'[conn[c].key].updated_at = conn[c].created
               /\ conn'[c].ret.value = None]_vars

\* the tick has just called the source for a live task whose value was due
\* for a refresh, and the task still holds the old value with its old stamp
C37_Witness ==
    /\ mainPc = "tick_iter"
    /\ tickTodo = {}
    /\ "k1" \notin tickSkipped
    /\ tasks["k1"].present
    /\ tasks["k1"].last_result /= None
    /\ now > tasks["k1"].updated_at + Interval

\* C38: get_or_create for a key whose task holds a value and whose liveness
\* window has already elapsed returns the stored value and restarts the window
\* from now without calling the source, however old the value is.
C38_ExpiredTaskRevived ==
    [][\A c \in Conns :
          LET k == conn[c].key
          IN  (/\ conn[c].pc = "lockwait"
               /\ conn'[c].pc /= "lockwait"
               /\ tasks[k].present
               /\ tasks[k].last_result /= None
               /\ now > tasks[k].until)
              => /\ conn'[c].pc = "respond"
                 /\ conn'[c].ret.value = tasks[k].last_result
                 /\ tasks'[k].until = now + TTL
                 /\ ~(now > tasks'[k].until)
                 /\ tasks'[k].updated_at = tasks[k].updated_at
                 /\ \A d \in Conns : conn'[d].pc /= "calling"]_vars

\* the second GET ever received was answered with the value the first one
\* fetched more than a ttl ago, never refreshed since: the window had elapsed,
\* and now ends a ttl from this instant
C38_Witness ==
    \E c \in Conns :
        /\ conn[c].pc = "respond"
        /\ conn[c].ret.key = "k1"
        /\ conn[c].ret.value /= None
        /\ conn[c].ret.value = tasks["k1"].last_result
        /\ nCmds = 2
        /\ ~tasks["k1"].refreshed
        /\ tasks["k1"].until = now + TTL
        /\ now > tasks["k1"].updated_at + TTL

\* C39: the task table holds one entry per key at most; a get_or_create for a
\* key with no task, or with a task that holds no value, starts one source
\* call, and when the call returns exactly one task is in the table for the
\* key: built by this call, touched at its creation, holding what the call
\* returned, the entries of the other keys untouched.
C39_OneFreshTaskPerMiss ==
    [][/\ DOMAIN tasks' = Keys
       /\ \A c \in Conns :
            LET k == conn[c].key
            IN  (/\ conn[c].pc = "lockwait"
                 /\ conn'[c].pc /= "lockwait"
                 /\ (~tasks[k].present \/ tasks[k].last_result = None))
                => /\ conn'[c].pc = "calling"
                   /\ conn'[c].key = k
                   /\ \A d \in Conns \ {c} : conn'[d].pc /= "calling"
                   /\ mainPc' /= "tick_calling"
       /\ \A c \in Conns :
            LET k == conn[c].key
            IN  (conn[c].pc = "calling" /\ conn'[c].pc /= "calling")
                => /\ conn'[c].pc = "respond"
                   /\ tasks'[k] = [present |-> TRUE,
                                   until |-> conn[c].created + TTL,
                                   updated_at |-> IF conn'[c].ret.value /= None
                                                  THEN now ELSE conn[c].created,
                                   last_result |-> conn'[c].ret.value,
                                   target |-> TRUE,
                                   refreshed |-> FALSE]
                   /\ \A j \in Keys \ {k} : tasks'[j] = tasks[j]]_vars

\* a GET found the task another GET had left without a value, called the
\* source again and got a value: the entry is the task this second call built
C39_Witness ==
    \E c, d \in Conns :
        /\ c /= d
        /\ conn[d].pc = "respond"
        /\ conn[d].ret = [key |-> "k1", value |-> None]
        /\ conn[c].pc = "respond"
        /\ conn[c].ret.key = "k1"
        /\ conn[c].ret.value /= None
        /\ tasks["k1"].last_result = conn[c].ret.value
        /\ tasks["k1"].updated_at = now
        /\ tasks["k1"].until = now + TTL
        /\ ~tasks["k1"].refreshed
        /\ now > 0

\* C40: the writer thread leaves its loop only when it has received a
\* shutdown token: once shutdown is called the thread eventually exits, and
\* once the Writer is dropped without shutdown the thread loops forever.
C40_ThreadEndsIffShutdown ==
    /\ [](wpc \in {"drain", "exited"} => wOwner \in {"joining", "joined"})
    /\ (wOwner = "joining") ~> (wpc = "exited")
    /\ [](wOwner = "dropped" => [](wpc = "loop"))

\* the Writer was dropped after a job was sent: the thread has processed the
\* job and is still in its loop, with nothing left to receive
C40_Witness ==
    /\ wOwner = "dropped"
    /\ wpc = "loop"
    /\ nSent > 0
    /\ jobs = <<>>
    /\ lastSeq = nSent
    /\ shutdownTok = 0

====
